---- MODULE Spec2Model ----
(***************************************************************************)
(* Model of the in-memory task store (services.TaskService) of the         *)
(* merge-queue task API: the task map, the identity counter, the capacity  *)
(* check, validation, partial update, delete, filtering and the RWMutex    *)
(* that callers go through, with the HTTP layer's use of the returned      *)
(* task pointers.                                                          *)
(*                                                                         *)
(* Strings the code trims, measures or searches (title, description,       *)
(* assignee, tags) are sequences of characters; status and priority,       *)
(* which the code only compares for equality, are TLA+ strings.            *)
(* A Go pointer-to-string or nil-able slice of an UpdateTaskRequest is a   *)
(* sequence of length 0 (nil) or 1 (the value pointed to).                 *)
(***************************************************************************)
EXTENDS Integers, Sequences, FiniteSets, TLC

\* ---------------------------------------------------------------- bounds
\* Largest configured maximum task count explored (maxTasks \in 0..MaxCap).
MaxCap == 5
\* Largest value the clock reaches; time.Now() never decreases.
MaxClock == 1
\* Number of store operations callers invoke after construction.
MaxOps == 2

\* ------------------------------------------------------ program constants
MinTitleLen == 1
MaxTitleLen == 200
MaxDescLen == 1000
MaxTags == 10
MaxTagLen == 50

Callers == {"c1", "c2"}

\* --------------------------------------------------------- string helpers
\* A Go string is a sequence of characters (runes), each a TLA+ string: an
\* ASCII character stands for itself ("\t", "\n", "\f" and "\r" by their
\* escapes) and any other rune is named by its code point, "U+000B" being
\* the vertical tab. The strings of the model are valid UTF-8.

\* The runes of two and of three bytes in UTF-8 that the model's strings
\* use: the white space of those widths and the letters E-acute and e-acute.
SpaceRunes2 == {"U+0085", "U+00A0"}
SpaceRunes3 ==
    {"U+1680", "U+2000", "U+2001", "U+2002", "U+2003", "U+2004", "U+2005",
     "U+2006", "U+2007", "U+2008", "U+2009", "U+200A", "U+2028", "U+2029",
     "U+202F", "U+205F", "U+3000"}
UpperEAcute == "U+00C9"
LowerEAcute == "U+00E9"

\* len(s) of a string: its number of bytes, one for a rune of ASCII, two for
\* the runes up to U+07FF and three for the others used here.
ByteLen(s) ==
    Len(s)
    + Cardinality({i \in 1..Len(s) :
                      s[i] \in SpaceRunes2 \cup SpaceRunes3
                               \cup {UpperEAcute, LowerEAcute}})
    + Cardinality({i \in 1..Len(s) : s[i] \in SpaceRunes3})

\* unicode.IsSpace: '\t', '\n', '\v', '\f', '\r', ' ', U+0085 (NEL),
\* U+00A0 (NBSP) and the runes of the Unicode property White_Space.
Whitespace ==
    {"\t", "\n", "U+000B", "\f", "\r", " "} \cup SpaceRunes2 \cup SpaceRunes3

RECURSIVE TrimLeft(_)
TrimLeft(s) ==
    IF s # <<>> /\ Head(s) \in Whitespace THEN TrimLeft(Tail(s)) ELSE s

RECURSIVE TrimRight(_)
TrimRight(s) ==
    IF s # <<>> /\ s[Len(s)] \in Whitespace
    THEN TrimRight(SubSeq(s, 1, Len(s) - 1))
    ELSE s

\* strings.TrimSpace
TrimSpace(s) == TrimRight(TrimLeft(s))

\* A string of n copies of the character c.
Repeat(c, n) == [i \in 1..n |-> c]

\* ------------------------------------------------------------------ errors
\* The code returns fmt.Errorf values; kind classifies the message the way
\* the specification names the failure (validation, capacity, notfound).
NoErr == [kind |-> "nil", msg |-> "nil"]
ValidationErr(m) == [kind |-> "validation", msg |-> m]
CapacityErr == [kind |-> "capacity", msg |-> "maximum number of tasks reached"]
NotFoundErr == [kind |-> "notfound", msg |-> "task not found"]

\* The first error of a sequence of check results, as a chain of
\* "if err != nil { return err }" returns it.
RECURSIVE FirstErr(_)
FirstErr(errs) ==
    IF errs = <<>> THEN NoErr
    ELSE IF Head(errs) # NoErr THEN Head(errs)
    ELSE FirstErr(Tail(errs))

\* ------------------------------------------------------- validation utils
IsEmpty(s) == TrimSpace(s) = <<>>

ValidateRequired(fieldName, value) ==
    IF IsEmpty(value) THEN ValidationErr(<<fieldName, "is required">>) ELSE NoErr

ValidateLength(fieldName, value, min, max) ==
    LET length == ByteLen(TrimSpace(value)) IN
    IF length < min THEN ValidationErr(<<fieldName, "must be at least">>)
    ELSE IF max > 0 /\ length > max
         THEN ValidationErr(<<fieldName, "must be no more than">>)
         ELSE NoErr

\* The check of one tag inside ValidateTagList's loop.
ValidateTag(tag, maxTagLength) ==
    LET t == TrimSpace(tag) IN
    IF t = <<>> THEN ValidationErr(<<"tag", "is empty">>)
    ELSE IF ByteLen(t) > maxTagLength
         THEN ValidationErr(<<"tag", "exceeds maximum length">>)
         ELSE NoErr

ValidateTagList(tags, maxTags, maxTagLength) ==
    IF Len(tags) > maxTags THEN ValidationErr(<<"tags", "maximum allowed">>)
    ELSE FirstErr([i \in 1..Len(tags) |-> ValidateTag(tags[i], maxTagLength)])

\* Mutant of IsValidStatus: the empty status passes.
IsValidStatus_OrEmpty(status) ==
    status = "" \/ status \in {"pending", "in-progress", "completed", "cancelled"}

ValidStatuses == {"pending", "in-progress", "completed", "cancelled"}
ValidPriorities == {"low", "medium", "high", "critical"}

IsValidStatus(status) == status \in ValidStatuses
IsValidPriority(priority) == priority \in ValidPriorities

\* --------------------------------------------------- optional (nil-able)
Nil == <<>>
Ptr(v) == <<v>>
Present(o) == o # Nil
Deref(o) == o[1]
\* A nil slice ranges and measures as the empty slice.
SliceOf(o) == IF Present(o) THEN Deref(o) ELSE <<>>

\* ------------------------------------------------------ request validation
validateCreateRequest(req) ==
    FirstErr(<<
        ValidateRequired("title", req.Title),
        ValidateLength("title", req.Title, MinTitleLen, MaxTitleLen),
        IF req.Description # <<>>
        THEN ValidateLength("description", req.Description, 0, MaxDescLen)
        ELSE NoErr,
        IF req.Status # "" /\ ~IsValidStatus(req.Status)
        THEN ValidationErr(<<"status", "invalid">>) ELSE NoErr,
        IF req.Priority # "" /\ ~IsValidPriority(req.Priority)
        THEN ValidationErr(<<"priority", "invalid">>) ELSE NoErr,
        ValidateTagList(req.Tags, MaxTags, MaxTagLen)
    >>)

validateUpdateRequest(req) ==
    FirstErr(<<
        IF Present(req.Title)
        THEN ValidateRequired("title", Deref(req.Title)) ELSE NoErr,
        IF Present(req.Title)
        THEN ValidateLength("title", Deref(req.Title), MinTitleLen, MaxTitleLen)
        ELSE NoErr,
        IF Present(req.Description)
        THEN ValidateLength("description", Deref(req.Description), 0, MaxDescLen)
        ELSE NoErr,
        IF Present(req.Status) /\ ~IsValidStatus(Deref(req.Status))
        THEN ValidationErr(<<"status", "invalid">>) ELSE NoErr,
        IF Present(req.Priority) /\ ~IsValidPriority(Deref(req.Priority))
        THEN ValidationErr(<<"priority", "invalid">>) ELSE NoErr,
        ValidateTagList(SliceOf(req.Tags), MaxTags, MaxTagLen)
    >>)

\* ------------------------------------------------------------ sample data
SampleTask1 ==
    [Title |-> <<"S", "e", "t", "u", "p", " ", "p", "r", "o", "j", "e", "c", "t", " ", "s", "t", "r", "u", "c", "t", "u", "r", "e">>,
     Description |-> <<"C", "r", "e", "a", "t", "e", " ", "b", "a", "s", "i", "c", " ", "G", "o", " ", "p", "r", "o", "j", "e", "c", "t", " ", "l", "a", "y", "o", "u", "t", " ", "w", "i", "t", "h", " ", "p", "r", "o", "p", "e", "r", " ", "p", "a", "c", "k", "a", "g", "e", " ", "o", "r", "g", "a", "n", "i", "z", "a", "t", "i", "o", "n">>,
     Status |-> "completed", Priority |-> "high",
     AssignedTo |-> <<"a", "l", "i", "c", "e">>,
     Tags |-> <<<<"s", "e", "t", "u", "p">>, <<"i", "n", "f", "r", "a", "s", "t", "r", "u", "c", "t", "u", "r", "e">>>>]

SampleTask2 ==
    [Title |-> <<"I", "m", "p", "l", "e", "m", "e", "n", "t", " ", "A", "P", "I", " ", "e", "n", "d", "p", "o", "i", "n", "t", "s">>,
     Description |-> <<"C", "r", "e", "a", "t", "e", " ", "R", "E", "S", "T", " ", "A", "P", "I", " ", "e", "n", "d", "p", "o", "i", "n", "t", "s", " ", "f", "o", "r", " ", "t", "a", "s", "k", " ", "m", "a", "n", "a", "g", "e", "m", "e", "n", "t", " ", "w", "i", "t", "h", " ", "p", "r", "o", "p", "e", "r", " ", "e", "r", "r", "o", "r", " ", "h", "a", "n", "d", "l", "i", "n", "g">>,
     Status |-> "in-progress", Priority |-> "high",
     AssignedTo |-> <<"b", "o", "b">>,
     Tags |-> <<<<"a", "p", "i">>, <<"b", "a", "c", "k", "e", "n", "d">>>>]

SampleTask3 ==
    [Title |-> <<"A", "d", "d", " ", "a", "u", "t", "h", "e", "n", "t", "i", "c", "a", "t", "i", "o", "n">>,
     Description |-> <<"I", "m", "p", "l", "e", "m", "e", "n", "t", " ", "J", "W", "T", "-", "b", "a", "s", "e", "d", " ", "a", "u", "t", "h", "e", "n", "t", "i", "c", "a", "t", "i", "o", "n", " ", "a", "n", "d", " ", "a", "u", "t", "h", "o", "r", "i", "z", "a", "t", "i", "o", "n", " ", "m", "i", "d", "d", "l", "e", "w", "a", "r", "e">>,
     Status |-> "pending", Priority |-> "medium",
     AssignedTo |-> <<"c", "h", "a", "r", "l", "i", "e">>,
     Tags |-> <<<<"a", "u", "t", "h">>, <<"s", "e", "c", "u", "r", "i", "t", "y">>>>]

SampleTask4 ==
    [Title |-> <<"W", "r", "i", "t", "e", " ", "d", "o", "c", "u", "m", "e", "n", "t", "a", "t", "i", "o", "n">>,
     Description |-> <<"C", "r", "e", "a", "t", "e", " ", "c", "o", "m", "p", "r", "e", "h", "e", "n", "s", "i", "v", "e", " ", "A", "P", "I", " ", "d", "o", "c", "u", "m", "e", "n", "t", "a", "t", "i", "o", "n", " ", "a", "n", "d", " ", "u", "s", "e", "r", " ", "g", "u", "i", "d", "e", "s">>,
     Status |-> "pending", Priority |-> "low",
     AssignedTo |-> <<>>,
     Tags |-> <<<<"d", "o", "c", "s">>, <<"d", "o", "c", "u", "m", "e", "n", "t", "a", "t", "i", "o", "n">>>>]

SampleTasks == <<SampleTask1, SampleTask2, SampleTask3, SampleTask4>>

\* ------------------------------------------------------------------ clock
\* The values a time.Now() reading can return when the previous reading
\* returned t: the clock never goes back and is capped at MaxClock.
ClockAfter(t) == {u \in t..MaxClock : u <= t + 1}

\* ------------------------------------------------- the store's operations
\* A store value is [tasks, heap, nextID]: tasks maps a key to the address
\* of a task object (map[int]*models.Task), heap holds the task objects by
\* address (objects are never freed while referenced, so the heap only
\* grows), nextID is the identity counter.
NilRef == 0

EmptyStore == [tasks |-> <<>>, heap |-> <<>>, nextID |-> 1]

\* Mutant of AtCapacity: the comparison is off by one.
AtCapacity_OffByOne(count, max) == count > max

\* len(ts.tasks) >= ts.maxTasks
AtCapacity(count, max) == count >= max

DefaultStatus(status) == IF status = "" THEN "pending" ELSE status
DefaultPriority(priority) == IF priority = "" THEN "medium" ELSE priority

\* The models.Task literal of CreateTask; c and u are the two time.Now()
\* readings it takes, in that order.
NewTask(id, req, c, u) ==
    [ID |-> id,
     Title |-> TrimSpace(req.Title),
     Description |-> TrimSpace(req.Description),
     Status |-> DefaultStatus(req.Status),
     Priority |-> DefaultPriority(req.Priority),
     CreatedAt |-> c,
     UpdatedAt |-> u,
     AssignedTo |-> TrimSpace(req.AssignedTo),
     Tags |-> req.Tags]

\* Mutant of AllocID: the ID is taken from the size of the map.
AllocID_BySize(store) == Cardinality(DOMAIN store.tasks) + 1

\* ID: ts.nextID, the key and the ID field of the new task.
AllocID(store) == store.nextID

\* Mutant of AdvanceID: the counter is left where it was.
AdvanceID_Stuck(store) == store.nextID

\* ts.nextID++
AdvanceID(store) == store.nextID + 1

\* ts.tasks[key] = the object at addr
MapPut(tasks, key, addr) ==
    [k \in (DOMAIN tasks) \cup {key} |-> IF k = key THEN addr ELSE tasks[k]]

\* delete(ts.tasks, key)
MapDelete(tasks, key) == [k \in (DOMAIN tasks) \ {key} |-> tasks[k]]

\* CreateTask between Lock and Unlock. Result: the error, the returned
\* pointer and the store afterwards.
CreateTask(store, max, req, c, u) ==
    LET err == validateCreateRequest(req) IN
    IF err # NoErr THEN [err |-> err, ref |-> NilRef, store |-> store]
    ELSE IF AtCapacity(Cardinality(DOMAIN store.tasks), max)
    THEN [err |-> CapacityErr, ref |-> NilRef, store |-> store]
    ELSE LET addr == Len(store.heap) + 1 IN
         [err |-> NoErr,
          ref |-> addr,
          store |-> [tasks |-> MapPut(store.tasks, AllocID(store), addr),
                     heap |-> Append(store.heap,
                                     NewTask(AllocID(store), req, c, u)),
                     nextID |-> AdvanceID(store)]]

\* GetTask between RLock and RUnlock.
GetTask(store, id) ==
    IF id \notin DOMAIN store.tasks
    THEN [err |-> NotFoundErr, ref |-> NilRef]
    ELSE [err |-> NoErr, ref |-> store.tasks[id]]

\* Mutant of ApplyUpdate: the tags are assigned whether present or not.
ApplyUpdate_AlwaysTags(task, req, t) ==
    [ID |-> task.ID,
     Title |-> IF Present(req.Title)
               THEN TrimSpace(Deref(req.Title)) ELSE task.Title,
     Description |-> IF Present(req.Description)
                     THEN TrimSpace(Deref(req.Description))
                     ELSE task.Description,
     Status |-> IF Present(req.Status) THEN Deref(req.Status) ELSE task.Status,
     Priority |-> IF Present(req.Priority)
                  THEN Deref(req.Priority) ELSE task.Priority,
     CreatedAt |-> task.CreatedAt,
     UpdatedAt |-> t,
     AssignedTo |-> IF Present(req.AssignedTo)
                    THEN TrimSpace(Deref(req.AssignedTo))
                    ELSE task.AssignedTo,
     Tags |-> SliceOf(req.Tags)]

\* Mutant of ApplyUpdate: the update stamps createdAt too.
ApplyUpdate_StampsCreated(task, req, t) ==
    [ApplyUpdate_AlwaysTags(task, req, t) EXCEPT
        !.CreatedAt = t,
        !.Tags = IF Present(req.Tags) THEN Deref(req.Tags) ELSE task.Tags]

\* The "Apply updates" block of UpdateTask on the task object; t is the
\* time.Now() reading.
ApplyUpdate(task, req, t) ==
    [ID |-> task.ID,
     Title |-> IF Present(req.Title)
               THEN TrimSpace(Deref(req.Title)) ELSE task.Title,
     Description |-> IF Present(req.Description)
                     THEN TrimSpace(Deref(req.Description))
                     ELSE task.Description,
     Status |-> IF Present(req.Status) THEN Deref(req.Status) ELSE task.Status,
     Priority |-> IF Present(req.Priority)
                  THEN Deref(req.Priority) ELSE task.Priority,
     CreatedAt |-> task.CreatedAt,
     UpdatedAt |-> t,
     AssignedTo |-> IF Present(req.AssignedTo)
                    THEN TrimSpace(Deref(req.AssignedTo))
                    ELSE task.AssignedTo,
     Tags |-> IF Present(req.Tags) THEN Deref(req.Tags) ELSE task.Tags]

\* Mutant of UpdateTask: the request is validated after it was applied.
UpdateTask_ValidateLate(store, id, req, t) ==
    IF id \notin DOMAIN store.tasks
    THEN [err |-> NotFoundErr, ref |-> NilRef, store |-> store]
    ELSE LET err == validateUpdateRequest(req)
             addr == store.tasks[id]
             after == [store EXCEPT
                          !.heap[addr] = ApplyUpdate(store.heap[addr], req, t)]
         IN IF err # NoErr THEN [err |-> err, ref |-> NilRef, store |-> after]
            ELSE [err |-> NoErr, ref |-> addr, store |-> after]

\* Mutant of UpdateTask: the request is validated before the ID is looked up.
UpdateTask_ValidateFirst(store, id, req, t) ==
    LET err == validateUpdateRequest(req) IN
    IF err # NoErr THEN [err |-> err, ref |-> NilRef, store |-> store]
    ELSE IF id \notin DOMAIN store.tasks
         THEN [err |-> NotFoundErr, ref |-> NilRef, store |-> store]
         ELSE [err |-> NoErr,
               ref |-> store.tasks[id],
               store |-> [store EXCEPT
                   !.heap[store.tasks[id]] =
                       ApplyUpdate(store.heap[store.tasks[id]], req, t)]]

\* UpdateTask between Lock and Unlock: existence first, then validation,
\* then the update in place of the object the map points to.
UpdateTask(store, id, req, t) ==
    IF id \notin DOMAIN store.tasks
    THEN [err |-> NotFoundErr, ref |-> NilRef, store |-> store]
    ELSE LET err == validateUpdateRequest(req)
             addr == store.tasks[id]
         IN IF err # NoErr THEN [err |-> err, ref |-> NilRef, store |-> store]
            ELSE [err |-> NoErr,
                  ref |-> addr,
                  store |-> [store EXCEPT
                      !.heap[addr] = ApplyUpdate(store.heap[addr], req, t)]]

\* Mutant of DeleteTask: deleting the task assigned last gives its ID back
\* to the counter.
DeleteTask_Recycle(store, id) ==
    IF id \notin DOMAIN store.tasks
    THEN [err |-> NotFoundErr, store |-> store]
    ELSE [err |-> NoErr,
          store |-> [store EXCEPT
              !.tasks = MapDelete(store.tasks, id),
              !.nextID = IF id = store.nextID - 1 THEN id ELSE store.nextID]]

\* DeleteTask between Lock and Unlock.
DeleteTask(store, id) ==
    IF id \notin DOMAIN store.tasks
    THEN [err |-> NotFoundErr, store |-> store]
    ELSE [err |-> NoErr,
          store |-> [store EXCEPT !.tasks = MapDelete(store.tasks, id)]]

\* ------------------------------------------------------------------ query
\* A TaskFilter is a record [Status, Priority, AssignedTo, Tags, Limit,
\* Offset]; a *TaskFilter is Nil or Ptr(filter).

\* Mutant of HasCommonTag: only the first filter tag is looked for.
HasCommonTag_FirstOnly(taskTags, filterTags) ==
    \E j \in 1..Len(taskTags) : taskTags[j] = filterTags[1]

\* The tag loop of matchesFilter: some filter tag equals some task tag.
HasCommonTag(taskTags, filterTags) ==
    \E i \in 1..Len(filterTags) : \E j \in 1..Len(taskTags) :
        taskTags[j] = filterTags[i]

matchesFilter(task, filter) ==
    IF ~Present(filter) THEN TRUE
    ELSE LET f == Deref(filter) IN
         IF f.Status # "" /\ task.Status # f.Status THEN FALSE
         ELSE IF f.Priority # "" /\ task.Priority # f.Priority THEN FALSE
         ELSE IF f.AssignedTo # <<>> /\ task.AssignedTo # f.AssignedTo
              THEN FALSE
         ELSE IF Len(f.Tags) > 0 /\ ~HasCommonTag(task.Tags, f.Tags)
              THEN FALSE
         ELSE TRUE

\* The slices sort.Slice can leave when it sorts the elements of S, appended
\* in the unspecified order of a map iteration, with less given as the set
\* of pairs <<a, b>> for which less(a, b) holds: every arrangement of S in
\* which no element is less than one placed before it.
RECURSIVE SortedSlices(_, _)
SortedSlices(S, less) ==
    IF S = {} THEN {<<>>}
    ELSE UNION {{<<x>> \o rest : rest \in SortedSlices(S \ {x}, less)} :
                   x \in {y \in S : \A z \in S : <<z, y>> \notin less}}

\* Mutant of sortTasks: oldest first.
sortTasks_Ascending(heapNow, addrs) ==
    SortedSlices(addrs, {<<a, b>> \in addrs \X addrs :
                            heapNow[a].CreatedAt < heapNow[b].CreatedAt})

\* sortTasks: less(i, j) is tasks[i].CreatedAt.After(tasks[j].CreatedAt).
\* The slice holds task objects, here by address.
sortTasks(heapNow, addrs) ==
    SortedSlices(addrs, {<<a, b>> \in addrs \X addrs :
                            heapNow[a].CreatedAt > heapNow[b].CreatedAt})

\* Go's int at the width of the build, 64 bits: four 16-bit words in two's
\* complement, the least significant first.
Word == 65536
WordCount == 4

\* The int whose value is n, for n of at most 32 bits.
GoInt(n) ==
    IF n >= 0 THEN <<n % Word, n \div Word, 0, 0>>
    ELSE <<n % Word, (n \div Word) % Word, Word - 1, Word - 1>>

MaxInt == <<Word - 1, Word - 1, Word - 1, Word \div 2 - 1>>

IsNegative(a) == a[WordCount] >= Word \div 2

\* a < b on int.
IntLess(a, b) ==
    IF IsNegative(a) # IsNegative(b) THEN IsNegative(a)
    ELSE \E i \in 1..WordCount :
            /\ a[i] < b[i]
            /\ \A j \in (i + 1)..WordCount : a[j] = b[j]

\* The carry out of the words below word i of a + b.
RECURSIVE Carry(_, _, _)
Carry(a, b, i) ==
    IF i = 1 THEN 0 ELSE (a[i - 1] + b[i - 1] + Carry(a, b, i - 1)) \div Word

\* a + b on int: a sum outside the range wraps around.
IntAdd(a, b) == [i \in 1..WordCount |-> (a[i] + b[i] + Carry(a, b, i)) % Word]

\* The value of an int of at most 32 bits, as a length or an index has.
IntVal(a) ==
    IF IsNegative(a) THEN (a[1] - Word) + (a[2] - (Word - 1)) * Word
    ELSE a[1] + a[2] * Word

\* applyPagination: tasks[offset:end]; a slice expression with a negative
\* index, or with end before offset, panics.
applyPagination(ts, limit, offset) ==
    LET length == GoInt(Len(ts)) IN
    IF ~IntLess(offset, length) THEN [panic |-> FALSE, tasks |-> <<>>]
    ELSE LET end == IF IntLess(GoInt(0), limit)
                       /\ IntLess(IntAdd(offset, limit), length)
                    THEN IntAdd(offset, limit) ELSE length
         IN IF IsNegative(offset) \/ IntLess(end, offset)
            THEN [panic |-> TRUE, tasks |-> <<>>]
            ELSE [panic |-> FALSE,
                  tasks |-> SubSeq(ts, IntVal(offset) + 1, IntVal(end))]

\* The task objects of the map that match the filter.
Matching(store, filter) ==
    {store.tasks[k] : k \in {i \in DOMAIN store.tasks :
                                matchesFilter(store.heap[store.tasks[i]], filter)}}

\* GetAllTasks between RLock and RUnlock: the results it can return.
GetAllTasks(store, filter) ==
    {IF Present(filter) /\ (IntLess(GoInt(0), Deref(filter).Limit)
                             \/ IntLess(GoInt(0), Deref(filter).Offset))
     THEN applyPagination(sorted, Deref(filter).Limit, Deref(filter).Offset)
     ELSE [panic |-> FALSE, tasks |-> sorted] :
        sorted \in sortTasks(store.heap, Matching(store, filter))}

\* ----------------------------------------------------------------- search
\* strings.ToLower, rune by rune: the upper-case letters among the model's
\* runes and their lower-case forms.
UpperLetters == <<"A", "B", "C", "D", "E", "F", "G", "H", "I", "J", "K", "L", "M", "N", "O", "P", "Q", "R", "S", "T", "U", "V", "W", "X", "Y", "Z", UpperEAcute>>
LowerLetters == <<"a", "b", "c", "d", "e", "f", "g", "h", "i", "j", "k", "l", "m", "n", "o", "p", "q", "r", "s", "t", "u", "v", "w", "x", "y", "z", LowerEAcute>>

ToLowerChar(c) ==
    IF \E i \in 1..Len(UpperLetters) : UpperLetters[i] = c
    THEN LowerLetters[CHOOSE i \in 1..Len(UpperLetters) : UpperLetters[i] = c]
    ELSE c

ToLower(s) == [i \in 1..Len(s) |-> ToLowerChar(s[i])]

\* strings.Contains: substr occurs in s.
Contains(s, substr) ==
    \E i \in 0..(Len(s) - Len(substr)) :
        SubSeq(s, i + 1, i + Len(substr)) = substr

\* The loop of matchesSearchQuery over the fields: some field named "title"
\* or "description" holds the search term; any other name is skipped.
AnyFieldContains(task, searchTerm, fields) ==
    \E i \in 1..Len(fields) :
        \/ fields[i] = "title" /\ Contains(ToLower(task.Title), searchTerm)
        \/ /\ fields[i] = "description"
           /\ Contains(ToLower(task.Description), searchTerm)

\* Mutant of matchesSearchQuery: no default for an empty field list.
matchesSearchQuery_NoDefaultFields(task, searchTerm, fields) ==
    IF searchTerm = <<>> THEN TRUE
    ELSE AnyFieldContains(task, searchTerm, fields)

matchesSearchQuery(task, searchTerm, fields) ==
    IF searchTerm = <<>> THEN TRUE
    ELSE AnyFieldContains(task, searchTerm,
                          IF Len(fields) = 0 THEN <<"title", "description">>
                          ELSE fields)

\* Mutant of PriorityOrder: the priorities in alphabetical order.
PriorityOrder_Alphabetical(priority) ==
    CASE priority = "critical" -> 1
      [] priority = "high" -> 2
      [] priority = "low" -> 3
      [] priority = "medium" -> 4
      [] OTHER -> 0

\* priorityOrder of sortTasksBy; a key the map lacks reads as 0.
PriorityOrder(priority) ==
    CASE priority = "low" -> 1
      [] priority = "medium" -> 2
      [] priority = "high" -> 3
      [] priority = "critical" -> 4
      [] OTHER -> 0

\* The less function sortTasksBy hands to sort.Slice, as the set of pairs
\* <<a, b>> with less(a, b).
LessBy(heapNow, addrs, sortBy, desc) ==
    {<<a, b>> \in addrs \X addrs :
        CASE sortBy = "created_at" ->
                 IF desc THEN heapNow[a].CreatedAt > heapNow[b].CreatedAt
                 ELSE heapNow[a].CreatedAt < heapNow[b].CreatedAt
          [] sortBy = "updated_at" ->
                 IF desc THEN heapNow[a].UpdatedAt > heapNow[b].UpdatedAt
                 ELSE heapNow[a].UpdatedAt < heapNow[b].UpdatedAt
          [] sortBy = "priority" ->
                 IF desc
                 THEN PriorityOrder(heapNow[a].Priority)
                          > PriorityOrder(heapNow[b].Priority)
                 ELSE PriorityOrder(heapNow[a].Priority)
                          < PriorityOrder(heapNow[b].Priority)
          [] OTHER -> heapNow[a].CreatedAt > heapNow[b].CreatedAt}

\* sortTasksBy: the slices it can leave.
sortTasksBy(heapNow, addrs, sortBy, desc) ==
    IF sortBy \in {"created_at", "updated_at", "priority"}
    THEN SortedSlices(addrs, LessBy(heapNow, addrs, sortBy, desc))
    ELSE sortTasks(heapNow, addrs)

\* The task objects of the map that pass the filter and the search term.
SearchMatching(store, q, searchTerm) ==
    {store.tasks[k] :
        k \in {i \in DOMAIN store.tasks :
                  /\ matchesFilter(store.heap[store.tasks[i]], Ptr(q.Filters))
                  /\ matchesSearchQuery(store.heap[store.tasks[i]], searchTerm,
                                        q.Fields)}}

\* SearchTasks between RLock and RUnlock: the results it can return. A nil
\* query is dereferenced, which panics.
SearchTasks(store, query) ==
    IF ~Present(query) THEN {[panic |-> TRUE, tasks |-> <<>>]}
    ELSE LET q == Deref(query)
             searchTerm == ToLower(TrimSpace(q.Query))
         IN {[panic |-> FALSE, tasks |-> sorted] :
                sorted \in sortTasksBy(store.heap,
                                       SearchMatching(store, q, searchTerm),
                                       q.SortBy, q.SortDesc)}

\* ------------------------------------------------------------------ stats
\* The map a loop of GetTaskStats builds with m[task.<field>]++ over the
\* tasks whose key is in keys: one entry for each value met.
CountBy(store, keys, field) ==
    [v \in {store.heap[store.tasks[k]][field] : k \in keys} |->
        Cardinality({k \in keys : store.heap[store.tasks[k]][field] = v})]

\* Mutant of GetTaskStats: every count is taken inside the check for an
\* assignee.
GetTaskStats_StatusOfAssigned(store, t) ==
    LET all == DOMAIN store.tasks
        assigned == {k \in all : store.heap[store.tasks[k]].AssignedTo # <<>>}
    IN [TotalTasks |-> Cardinality(all),
        TasksByStatus |-> CountBy(store, assigned, "Status"),
        TasksByPriority |-> CountBy(store, assigned, "Priority"),
        TasksByUser |-> CountBy(store, assigned, "AssignedTo"),
        LastUpdated |-> t]

\* Mutant of GetTaskStats: tasks without an assignee are counted by user
\* too.
GetTaskStats_CountsUnassigned(store, t) ==
    LET all == DOMAIN store.tasks
    IN [TotalTasks |-> Cardinality(all),
        TasksByStatus |-> CountBy(store, all, "Status"),
        TasksByPriority |-> CountBy(store, all, "Priority"),
        TasksByUser |-> CountBy(store, all, "AssignedTo"),
        LastUpdated |-> t]

\* GetTaskStats between RLock and RUnlock, with t the reading of the clock.
GetTaskStats(store, t) ==
    LET all == DOMAIN store.tasks
        assigned == {k \in all : store.heap[store.tasks[k]].AssignedTo # <<>>}
    IN [TotalTasks |-> Cardinality(all),
        TasksByStatus |-> CountBy(store, all, "Status"),
        TasksByPriority |-> CountBy(store, all, "Priority"),
        TasksByUser |-> CountBy(store, assigned, "AssignedTo"),
        LastUpdated |-> t]

\* ----------------------------------------------------------- construction
\* addSampleTasks: CreateTask on each sample request in order, errors
\* ignored; clk[2i-1] and clk[2i] are the clock readings of the i-th call.
RECURSIVE addSampleTasks(_, _, _, _)
addSampleTasks(store, max, i, clk) ==
    IF i > Len(SampleTasks) THEN store
    ELSE addSampleTasks(
             CreateTask(store, max, SampleTasks[i], clk[2 * i - 1], clk[2 * i]).store,
             max, i + 1, clk)

\* The clock readings a construction takes: the sample tasks are created
\* back to back, and the clock ticks at most once meanwhile.
SeedClocks ==
    {clk \in [1..(2 * Len(SampleTasks)) -> {0, 1}] :
        \A i \in 2..(2 * Len(SampleTasks)) : clk[i - 1] <= clk[i]}

\* Mutant of NewTaskService: no sample data.
NewTaskService_NoSeed(max, clk) == EmptyStore

\* NewTaskService(max)
NewTaskService(max, clk) == addSampleTasks(EmptyStore, max, 1, clk)

\* ---------------------------------------------------------------- requests
\* CreateTaskRequest values callers send: two valid ones (one relying on
\* trimming and on the defaults, one with every field set) and one request
\* for each validation rule it breaks.
BaseCreate ==
    [Title |-> <<" ", "F", "i", "x", " ">>, Description |-> <<>>,
     Status |-> "", Priority |-> "", AssignedTo |-> <<>>, Tags |-> <<>>]

FullCreate ==
    [Title |-> <<"X">>, Description |-> <<" ", "d">>,
     Status |-> "completed", Priority |-> "high",
     AssignedTo |-> <<"b", "o", "b", " ">>,
     Tags |-> << <<"a", "p", "i">> >>]

CreateRequests ==
    {BaseCreate, FullCreate,
     [BaseCreate EXCEPT !.Title = <<" ", "\t">>],
     [FullCreate EXCEPT !.Status = "bogus"]}

\* UpdateTaskRequest values: the empty request, one present field at a
\* time (valid and invalid), and one request with two present fields.
NoUpdate ==
    [Title |-> Nil, Description |-> Nil, Status |-> Nil, Priority |-> Nil,
     AssignedTo |-> Nil, Tags |-> Nil]

TitleOnly == [NoUpdate EXCEPT !.Title = Ptr(<<" ", "N", "e", "w">>)]

UpdateRequests ==
    {NoUpdate, TitleOnly,
     [NoUpdate EXCEPT !.Title = Ptr(<<" ">>)],
     [NoUpdate EXCEPT !.Title = Ptr(<<"Y">>), !.Priority = Ptr("critical"),
                      !.AssignedTo = Ptr(<<" ", "e", "v", "e">>)]}

\* The updates that run while a handler encodes the task: of the title,
\* the priority and the assignee, and of the tags with fewer and with more
\* tags than the task has.
RacingUpdates ==
    {[NoUpdate EXCEPT !.Title = Ptr(<<"Y">>), !.Priority = Ptr("critical"),
                      !.AssignedTo = Ptr(<<" ", "e", "v", "e">>)],
     [NoUpdate EXCEPT !.Tags = Ptr(<< <<"x">> >>)],
     [NoUpdate EXCEPT !.Tags = Ptr(<< <<"x">>, <<"y">>, <<"z">> >>)]}

\* Requests at and around every limit of the validation rules, with white
\* space other than the blank and with runes of more than one byte:
\* CreateTask requests ...
CreateProbes ==
    CreateRequests \cup
    {[BaseCreate EXCEPT !.Title = Repeat("x", MaxTitleLen)],
     [BaseCreate EXCEPT !.Title = Repeat("x", MaxTitleLen + 1)],
     [BaseCreate EXCEPT !.Title = <<" ">> \o Repeat("x", MaxTitleLen) \o <<" ">>],
     [BaseCreate EXCEPT !.Description = Repeat("d", MaxDescLen + 1)],
     [BaseCreate EXCEPT !.Status = "Pending"],
     [BaseCreate EXCEPT !.Priority = "urgent"],
     [BaseCreate EXCEPT !.Tags = [i \in 1..MaxTags |-> <<"t">>]],
     [BaseCreate EXCEPT !.Tags = [i \in 1..(MaxTags + 1) |-> <<"t">>]],
     [BaseCreate EXCEPT !.Tags = <<Repeat("t", MaxTagLen)>>],
     [BaseCreate EXCEPT !.Tags = <<Repeat("t", MaxTagLen + 1)>>],
     [BaseCreate EXCEPT
         !.Tags = << <<" ">> \o Repeat("t", MaxTagLen) \o <<" ">> >>],
     [BaseCreate EXCEPT !.Tags = << <<"a">>, <<" ">> >>],
     [BaseCreate EXCEPT !.Title = <<"\f">>],
     [BaseCreate EXCEPT !.Title = <<"U+000B", "x", "U+00A0">>,
                        !.AssignedTo = <<"\f", "b", "o", "b", "U+2003">>],
     [BaseCreate EXCEPT !.Title = Repeat("x", MaxTitleLen) \o <<"U+000B">>],
     [BaseCreate EXCEPT !.Title = Repeat(LowerEAcute, MaxTitleLen \div 2)],
     [BaseCreate EXCEPT !.Title = Repeat(LowerEAcute, MaxTitleLen \div 2 + 1)],
     [BaseCreate EXCEPT !.Tags = <<Repeat(LowerEAcute, MaxTagLen \div 2)>>],
     [BaseCreate EXCEPT !.Tags = <<Repeat(LowerEAcute, MaxTagLen \div 2 + 1)>>],
     [BaseCreate EXCEPT !.Tags = << <<"a">>, <<"\f">> >>]}

\* ... and UpdateTask requests.
UpdateProbes ==
    UpdateRequests \cup
    {[NoUpdate EXCEPT !.Status = Ptr("cancelled")],
     [NoUpdate EXCEPT !.Status = Ptr("")],
     [NoUpdate EXCEPT !.Status = Ptr("done")],
     [NoUpdate EXCEPT !.Priority = Ptr("low")],
     [NoUpdate EXCEPT !.Priority = Ptr("")],
     [NoUpdate EXCEPT !.Title = Ptr(<<>>)],
     [NoUpdate EXCEPT !.Title = Ptr(Repeat("x", MaxTitleLen + 1))],
     [NoUpdate EXCEPT !.Description = Ptr(Repeat("d", MaxDescLen + 1))],
     [NoUpdate EXCEPT !.Tags = Ptr(<<>>)],
     [NoUpdate EXCEPT !.Tags = Ptr([i \in 1..(MaxTags + 1) |-> <<"t">>])],
     [NoUpdate EXCEPT !.Tags = Ptr(<<Repeat("t", MaxTagLen + 1)>>)],
     [NoUpdate EXCEPT
         !.Tags = Ptr(<< <<" ">> \o Repeat("t", MaxTagLen) \o <<" ">> >>)],
     [NoUpdate EXCEPT !.Title = Ptr(<<"\f">>)],
     [NoUpdate EXCEPT !.Title = Ptr(Repeat(LowerEAcute, MaxTitleLen \div 2 + 1))],
     [NoUpdate EXCEPT !.AssignedTo = Ptr(<<"\f", "b", "o", "b">>)],
     [NoUpdate EXCEPT !.Tags = Ptr(<< <<"U+000B">> >>)]}

\* TaskFilter values. NoFilter is the filter with every field empty.
NoFilter ==
    [Status |-> "", Priority |-> "", AssignedTo |-> <<>>, Tags |-> <<>>,
     Limit |-> GoInt(0), Offset |-> GoInt(0)]

\* The filter the concurrent callers list with.
ListFilters == {Ptr([NoFilter EXCEPT !.Status = "pending", !.Priority = "low"])}

\* The filters the querying caller lists with: none, the empty one, each
\* field alone, and fields combined.
QueryFilters ==
    {Nil, Ptr(NoFilter),
     Ptr([NoFilter EXCEPT !.Status = "pending"]),
     Ptr([NoFilter EXCEPT !.Status = "pending", !.Priority = "high"]),
     Ptr([NoFilter EXCEPT !.Status = "pending", !.Priority = "medium"]),
     Ptr([NoFilter EXCEPT !.Priority = "high"]),
     Ptr([NoFilter EXCEPT !.AssignedTo = <<"b", "o", "b">>]),
     Ptr([NoFilter EXCEPT !.Tags = << <<"a", "p", "i">> >>]),
     Ptr([NoFilter EXCEPT !.Tags = << <<"n", "o", "n", "e">>, <<"d", "o", "c", "s">>,
                                      <<"s", "e", "t", "u", "p">> >>]),
     Ptr([NoFilter EXCEPT !.Status = "completed",
                          !.Tags = << <<"a", "p", "i">>, <<"s", "e", "t", "u", "p">> >>]),
     Ptr([NoFilter EXCEPT !.Status = "done"]),
     Ptr([NoFilter EXCEPT !.Limit = GoInt(2), !.Offset = GoInt(1)]),
     Ptr([NoFilter EXCEPT !.Offset = GoInt(-1)]),
     Ptr([NoFilter EXCEPT !.Limit = GoInt(1), !.Offset = GoInt(-1)]),
     Ptr([NoFilter EXCEPT !.Limit = GoInt(2), !.Offset = GoInt(3)]),
     Ptr([NoFilter EXCEPT !.Limit = GoInt(2)]),
     Ptr([NoFilter EXCEPT !.Offset = GoInt(10)]),
     Ptr([NoFilter EXCEPT !.Limit = GoInt(-1), !.Offset = GoInt(1)]),
     Ptr([NoFilter EXCEPT !.Limit = MaxInt, !.Offset = GoInt(1)]),
     Ptr([NoFilter EXCEPT !.Limit = GoInt(2147483647), !.Offset = GoInt(1)]),
     Ptr([NoFilter EXCEPT !.Status = "pending", !.Limit = GoInt(1), !.Offset = GoInt(1)])}

\* TaskSearchQuery values. NoQuery is the query with every field empty.
NoQuery ==
    [Query |-> <<>>, Fields |-> <<>>, Filters |-> NoFilter, SortBy |-> "",
     SortDesc |-> FALSE]

\* A query for the tasks tagged api, auth or docs.
SortQuery ==
    [NoQuery EXCEPT !.Filters =
        [NoFilter EXCEPT !.Tags = <<<<"a", "p", "i">>, <<"a", "u", "t", "h">>, <<"d", "o", "c", "s">>>>]]

\* The queries the querying caller searches with: texts in either case, with
\* and without surrounding white space, each field set, a filter, and each
\* sort key in both directions.
SearchQueries ==
    {Nil, Ptr(NoQuery),
     Ptr([NoQuery EXCEPT !.Query = <<"A", "P", "I">>]),
     Ptr([NoQuery EXCEPT !.Query = <<"A", "P", "I">>, !.Fields = <<"title">>]),
     Ptr([NoQuery EXCEPT !.Query = <<"D", "o", "c", "u", "m", "e", "n", "t", "a", "t", "i", "o", "n", " ">>, !.Fields = <<"title">>]),
     Ptr([NoQuery EXCEPT !.Query = <<" ", " ">>]),
     Ptr([NoQuery EXCEPT !.Query = <<"U+00A0", "A", "P", "I", "\f">>]),
     Ptr([NoQuery EXCEPT !.Query = <<"j", "w", "t">>, !.Fields = <<"description">>]),
     Ptr([NoQuery EXCEPT !.Query = <<"s", "e", "t", "u", "p">>, !.Fields = <<"assignee">>]),
     Ptr([NoQuery EXCEPT !.Query = <<"s", "e", "t", "u", "p">>, !.Fields = <<"tags", "title">>]),
     Ptr([NoQuery EXCEPT !.Query = <<"c", "r", "e", "a", "t", "e">>,
                         !.Filters = [NoFilter EXCEPT !.Status = "pending"]]),
     Ptr([NoQuery EXCEPT !.Filters = [NoFilter EXCEPT !.Limit = GoInt(1), !.Offset = GoInt(1)]]),
     Ptr([SortQuery EXCEPT !.SortBy = "created_at"]),
     Ptr([SortQuery EXCEPT !.SortBy = "created_at", !.SortDesc = TRUE]),
     Ptr([SortQuery EXCEPT !.SortBy = "updated_at"]),
     Ptr([SortQuery EXCEPT !.SortBy = "updated_at", !.SortDesc = TRUE]),
     Ptr([SortQuery EXCEPT !.SortBy = "priority"]),
     Ptr([SortQuery EXCEPT !.SortBy = "priority", !.SortDesc = TRUE]),
     Ptr([SortQuery EXCEPT !.SortBy = "title"]),
     Ptr([SortQuery EXCEPT !.SortDesc = TRUE])}

\* The search the concurrent callers run: the one for the text API.
CallerQueries == {Ptr([NoQuery EXCEPT !.Query = <<"A", "P", "I">>])}

\* ------------------------------------------------------- the rate limiter
\* Clock readings are whole minutes: time.Minute is one unit of the clock.
Minute == 1
\* The age after which cleanupOldClients forgets a client, in minutes.
CleanupAfter == 10
\* The client addresses getClientIP gives the requests.
ClientIPs == {<<"1", "0", ".", "0", ".", "0", ".", "1">>,
              <<"1", "0", ".", "0", ".", "0", ".", "2">>}
\* Values of config.Features.RateLimitPerMin: off, and two positive limits.
RateLimits == {0, 1, 2}
\* The value the default configuration gives it.
DefaultRateLimit == 60

\* reqTime.After(now.Add(-time.Minute))
InLastMinute(reqTime, t) == reqTime > t - Minute

\* The count loop of isRateLimited and getRemainingRequests.
CountRecent(requests, t) ==
    Cardinality({i \in 1..Len(requests) : InLastMinute(requests[i], t)})

\* isRateLimited(clientIP), reading the clock as t.
isRateLimited(cl, ip, t, limit) ==
    IF ip \notin DOMAIN cl THEN FALSE
    ELSE CountRecent(cl[ip].requests, t) >= limit

\* recordRequest(clientIP), reading the clock as t: the clients after it.
recordRequest(cl, ip, t) ==
    LET old == IF ip \in DOMAIN cl THEN cl[ip].requests ELSE <<>>
        all == Append(old, t)
        valid == SelectSeq(all, LAMBDA r : InLastMinute(r, t))
    IN [k \in (DOMAIN cl) \cup {ip} |->
           IF k = ip THEN [requests |-> valid, lastSeen |-> t] ELSE cl[k]]

\* getRemainingRequests(clientIP), reading the clock as t.
getRemainingRequests(cl, ip, t, limit) ==
    IF ip \notin DOMAIN cl THEN limit
    ELSE LET remaining == limit - CountRecent(cl[ip].requests, t)
         IN IF remaining < 0 THEN 0 ELSE remaining

\* One pass of cleanupOldClients, reading the clock as t: the clients left.
cleanupPass(cl, t) ==
    [k \in {c \in DOMAIN cl : ~(cl[c].lastSeen < t - CleanupAfter * Minute)}
        |-> cl[k]]

\* ------------------------------------------------------------------- state
VARIABLES
    tasks,      \* ts.tasks: key -> address of the task object
    heap,       \* the task objects, by address
    nextID,     \* ts.nextID
    maxTasks,   \* ts.maxTasks
    now,        \* the latest time.Now() reading
    wlocked,    \* ts.mutex is held by a writer
    rcount,     \* number of readers holding ts.mutex
    pc,         \* where each caller is
    arg,        \* the arguments of a caller's current or last call
    ret,        \* what the call returned to the caller
    view,       \* what the caller's JSON encoder has read so far, task by task
    resp,       \* the tasks the caller's HTTP response carried
    snap,       \* history: states each encoded object had since the first load
    nops,       \* number of operations invoked so far
    created,    \* history: the IDs successful CreateTask calls returned
    deleted,    \* history: the IDs successful DeleteTask calls removed
    rateLimit,      \* rlm.config.Features.RateLimitPerMin
    clients,        \* rlm.clients: client address -> requests, lastSeen
    tickerStopped,  \* rlm.cleanupTicker.Stop() has been called
    tickPending,    \* a tick waits in rlm.cleanupTicker.C
    cleanupPc,      \* where the cleanupOldClients goroutine is
    recordedAt,     \* the time recordRequest recorded for a caller's request
    passed          \* history: the requests handed to next.ServeHTTP

storeVars == <<tasks, heap, nextID, maxTasks>>
limiterVars == <<rateLimit, clients, tickerStopped, tickPending, cleanupPc,
                 recordedAt, passed>>
vars == <<tasks, heap, nextID, maxTasks, now, wlocked, rcount, pc, arg, ret,
          view, resp, snap, nops, created, deleted, rateLimit, clients,
          tickerStopped, tickPending, cleanupPc, recordedAt, passed>>

Store == [tasks |-> tasks, heap |-> heap, nextID |-> nextID]

NoArg == [id |-> 0, req |-> <<>>]
\* What a call gave its caller: the error, the task pointer, the slice of
\* task pointers, the *TaskStats, or a panic that unwound the call.
Result(op, err, ref, list, panic) ==
    [op |-> op, err |-> err, ref |-> ref, list |-> list, panic |-> panic,
     stats |-> Nil]
NoRet == Result("none", NoErr, NilRef, <<>>, FALSE)

\* The state after NewTaskService(maxTasks) returned, no caller started.
StoreInit ==
    /\ maxTasks \in 0..MaxCap
    /\ \E clk \in SeedClocks :
          LET s == NewTaskService(maxTasks, clk) IN
          /\ tasks = s.tasks
          /\ heap = s.heap
          /\ nextID = s.nextID
          /\ now = IF s.heap = <<>> THEN 0 ELSE s.heap[Len(s.heap)].UpdatedAt
          /\ created = [i \in 1..Len(s.heap) |-> s.heap[i].ID]
    /\ wlocked = FALSE
    /\ rcount = 0
    /\ pc = [p \in Callers |-> "idle"]
    /\ arg = [p \in Callers |-> NoArg]
    /\ ret = [p \in Callers |-> NoRet]
    /\ view = [p \in Callers |-> <<>>]
    /\ resp = [p \in Callers |-> Nil]
    /\ snap = [p \in Callers |-> <<>>]
    /\ nops = 0
    /\ deleted = {}

\* The state after NewRateLimitMiddleware(cfg, logger) returned, with the
\* limit of cfg one of limits: no client known, the ticker running, and the
\* cleanupOldClients goroutine at the receive of its range loop.
LimiterInit(limits) ==
    /\ rateLimit \in limits
    /\ clients = [ip \in {} |-> <<>>]
    /\ tickerStopped = FALSE
    /\ tickPending = FALSE
    /\ cleanupPc = "receive"
    /\ recordedAt = [p \in Callers |-> 0]
    /\ passed = <<>>

\* The state after the constructors returned: NewTaskService(M) for every
\* maximum M from 0 up, the zero that main never passes (config.Validate
\* accepts a positive MaxTasksPerUser only) included, and the middleware
\* with the rate limit of the default configuration.
Init ==
    /\ StoreInit
    /\ LimiterInit({DefaultRateLimit})

\* ------------------------------------------------------------ the RWMutex
\* Mutant of CanLock: a writer does not wait for the readers.
CanLock_IgnoresReaders == ~wlocked

\* ts.mutex.Lock() returns: no writer and no reader holds the mutex.
CanLock == ~wlocked /\ rcount = 0
\* ts.mutex.RLock() returns: no writer holds the mutex.
CanRLock == ~wlocked

\* IDs callers ask for: the one assigned last and the next one, which no
\* task has yet.
TargetIDs == {id \in 1..nextID : id >= nextID - 1}

\* A caller enters an operation: its previous results are dropped.
Enter(p, op, a) ==
    /\ pc[p] = "idle"
    /\ nops < MaxOps
    /\ nops' = nops + 1
    /\ pc' = [pc EXCEPT ![p] = op]
    /\ arg' = [arg EXCEPT ![p] = a]
    /\ ret' = [ret EXCEPT ![p] = NoRet]
    /\ resp' = [resp EXCEPT ![p] = Nil]
    /\ snap' = [snap EXCEPT ![p] = <<>>]
    /\ UNCHANGED <<storeVars, limiterVars, now, view, created, deleted>>

\* A call returns r to caller p.
Return(p, r) ==
    /\ ret' = [ret EXCEPT ![p] = r]
    /\ pc' = [pc EXCEPT ![p] = "idle"]
    /\ UNCHANGED <<arg, view, resp, nops, maxTasks, limiterVars>>

\* The task pointers a call gave its caller: the slice GetAllTasks and
\* SearchTasks return, the one pointer the other operations return.
Pointers(p) ==
    IF ret[p].op \in {"list", "search"} THEN ret[p].list ELSE <<ret[p].ref>>

\* History kept for a caller that is encoding the object at addr while a
\* writer leaves it in the state h[addr]: the states each of its objects
\* had since the encoder started reading, the states between two
\* assignments of one UpdateTask included.
Committed(p, addr, h) ==
    IF pc[p] = "encode"
    THEN [i \in 1..Len(snap[p]) |->
             IF Pointers(p)[i] = addr THEN snap[p][i] \cup {h[addr]}
             ELSE snap[p][i]]
    ELSE snap[p]

\* ------------------------------------------------------------- operations
\* CreateTask: ts.mutex.Lock() taken.
BeginCreate(p, requests) ==
    /\ CanLock
    /\ \E req \in requests : Enter(p, "create", [id |-> 0, req |-> req])
    /\ wlocked' = TRUE
    /\ UNCHANGED rcount

\* CreateTask: the body and the deferred Unlock.
Create(p) ==
    /\ pc[p] = "create"
    /\ \E c \in ClockAfter(now) : \E u \in ClockAfter(c) :
       \E r \in {CreateTask(Store, maxTasks, arg[p].req, c, u)} :
          LET ok == r.err = NoErr
          IN /\ tasks' = r.store.tasks
             /\ heap' = r.store.heap
             /\ nextID' = r.store.nextID
             /\ now' = IF ok THEN u ELSE now
             /\ created' = IF ok THEN Append(created, r.store.heap[r.ref].ID)
                           ELSE created
             /\ Return(p, Result("create", r.err, r.ref, <<>>, FALSE))
    /\ wlocked' = FALSE
    /\ UNCHANGED <<rcount, snap, deleted>>

\* GetTask: ts.mutex.RLock() taken.
BeginGet(p) ==
    /\ CanRLock
    /\ \E id \in TargetIDs : Enter(p, "get", [id |-> id, req |-> <<>>])
    /\ rcount' = rcount + 1
    /\ UNCHANGED wlocked

\* GetTask that stamps the task it returns.
Get_StampsAccess(p) ==
    /\ pc[p] = "get"
    /\ LET r == GetTask(Store, arg[p].id) IN
          /\ Return(p, Result("get", r.err, r.ref, <<>>, FALSE))
          /\ heap' = IF r.ref = NilRef THEN heap
                     ELSE [heap EXCEPT ![r.ref].UpdatedAt = now]
    /\ rcount' = rcount - 1
    /\ UNCHANGED <<tasks, nextID, now, wlocked, snap, created, deleted>>

\* GetTask: the body and the deferred RUnlock.
Get(p) ==
    /\ pc[p] = "get"
    /\ LET r == GetTask(Store, arg[p].id) IN
          Return(p, Result("get", r.err, r.ref, <<>>, FALSE))
    /\ rcount' = rcount - 1
    /\ UNCHANGED <<tasks, heap, nextID, now, wlocked, snap, created, deleted>>

\* UpdateTask: ts.mutex.Lock() taken.
BeginUpdate(p, requests) ==
    /\ CanLock
    /\ \E id \in TargetIDs : \E req \in requests :
          Enter(p, "update", [id |-> id, req |-> req])
    /\ wlocked' = TRUE
    /\ UNCHANGED rcount

\* The fields the "Apply updates" block of UpdateTask assigns from the
\* request, in the order of its assignments.
UpdateOrder ==
    <<"Title", "Description", "Status", "Priority", "AssignedTo", "Tags">>

\* The assignments of the block that a reader of the object obj has yet to
\* see when the block leaves the object as target: an assignment that was
\* made, that is skipped for a nil field, or that stores the value the field
\* has already, shows nothing.
PendingWrites(obj, target) ==
    {i \in 1..Len(UpdateOrder) : obj[UpdateOrder[i]] # target[UpdateOrder[i]]}

\* UpdateTask, one step of the body. The task object is written in place,
\* one field after the other, and is read without the mutex by the handlers
\* that encode it, so each assignment is a step of its own: the step runs
\* the body up to its next assignment that changes the object, the first
\* step from the lookup and the validation on, and the last one assigns
\* UpdatedAt, returns and runs the deferred Unlock. The step of an
\* assignment is the moment from which every word of the field holds the
\* new value; the words that a reader without the lock finds stored before
\* that moment are those of InFlight.
Update(p) ==
    /\ pc[p] \in {"update", "apply"}
    /\ \E t \in ClockAfter(now) :
       \E r \in {UpdateTask(Store, arg[p].id, arg[p].req, t)} :
          IF r.err # NoErr
          THEN /\ tasks' = r.store.tasks
               /\ heap' = r.store.heap
               /\ nextID' = r.store.nextID
               /\ Return(p, Result("update", r.err, r.ref, <<>>, FALSE))
               /\ wlocked' = FALSE
               /\ UNCHANGED <<now, snap>>
          ELSE \E target \in {ApplyUpdate(heap[r.ref], arg[p].req, t)} :
               \E pending \in {PendingWrites(heap[r.ref], target)} :
                  IF pending # {}
                  THEN LET f == UpdateOrder[CHOOSE i \in pending :
                                               \A j \in pending : i <= j]
                           h == [heap EXCEPT ![r.ref][f] = target[f]]
                       IN /\ heap' = h
                          /\ snap' = [q \in Callers |-> Committed(q, r.ref, h)]
                          /\ pc' = [pc EXCEPT ![p] = "apply"]
                          /\ UNCHANGED <<tasks, nextID, maxTasks, now, wlocked,
                                         arg, ret, view, resp, nops,
                                         limiterVars>>
                  ELSE LET h == [heap EXCEPT ![r.ref] = target]
                       IN /\ heap' = h
                          /\ snap' = [q \in Callers |-> Committed(q, r.ref, h)]
                          /\ now' = t
                          /\ Return(p, Result("update", NoErr, r.ref, <<>>,
                                              FALSE))
                          /\ wlocked' = FALSE
                          /\ UNCHANGED <<tasks, nextID>>
    /\ UNCHANGED <<rcount, created, deleted>>

\* DeleteTask: ts.mutex.Lock() taken.
BeginDelete(p) ==
    /\ CanLock
    /\ \E id \in TargetIDs : Enter(p, "delete", [id |-> id, req |-> <<>>])
    /\ wlocked' = TRUE
    /\ UNCHANGED rcount

\* DeleteTask that returns the not-found error without unlocking.
Delete_KeepsLockOnMissing(p) ==
    /\ pc[p] = "delete"
    /\ \E r \in {DeleteTask(Store, arg[p].id)} :
          /\ tasks' = r.store.tasks
          /\ heap' = r.store.heap
          /\ nextID' = r.store.nextID
          /\ deleted' = IF r.err = NoErr THEN deleted \cup {arg[p].id}
                        ELSE deleted
          /\ Return(p, Result("delete", r.err, NilRef, <<>>, FALSE))
          /\ wlocked' = (r.err # NoErr)
    /\ UNCHANGED <<now, rcount, snap, created>>

\* DeleteTask: the body and the deferred Unlock.
Delete(p) ==
    /\ pc[p] = "delete"
    /\ \E r \in {DeleteTask(Store, arg[p].id)} :
          /\ tasks' = r.store.tasks
          /\ heap' = r.store.heap
          /\ nextID' = r.store.nextID
          /\ deleted' = IF r.err = NoErr THEN deleted \cup {arg[p].id}
                        ELSE deleted
          /\ Return(p, Result("delete", r.err, NilRef, <<>>, FALSE))
    /\ wlocked' = FALSE
    /\ UNCHANGED <<now, rcount, snap, created>>

\* GetAllTasks: ts.mutex.RLock() taken.
BeginList(p) ==
    /\ CanRLock
    /\ \E f \in ListFilters : Enter(p, "list", [id |-> 0, req |-> f])
    /\ rcount' = rcount + 1
    /\ UNCHANGED wlocked

\* GetAllTasks, called with any of the query filters: ts.mutex.RLock() taken.
BeginQuery(p) ==
    /\ CanRLock
    /\ \E f \in QueryFilters : Enter(p, "list", [id |-> 0, req |-> f])
    /\ rcount' = rcount + 1
    /\ UNCHANGED wlocked

\* GetAllTasks: the body and the deferred RUnlock.
List(p) ==
    /\ pc[p] = "list"
    /\ \E r \in GetAllTasks(Store, arg[p].req) :
          Return(p, Result("list", NoErr, NilRef, r.tasks, r.panic))
    /\ rcount' = rcount - 1
    /\ UNCHANGED <<tasks, heap, nextID, now, wlocked, snap, created, deleted>>

\* SearchTasks: ts.mutex.RLock() taken.
BeginSearch(p, queries) ==
    /\ CanRLock
    /\ \E q \in queries : Enter(p, "search", [id |-> 0, req |-> q])
    /\ rcount' = rcount + 1
    /\ UNCHANGED wlocked

\* SearchTasks: the body and the deferred RUnlock.
Search(p) ==
    /\ pc[p] = "search"
    /\ \E r \in SearchTasks(Store, arg[p].req) :
          Return(p, Result("search", NoErr, NilRef, r.tasks, r.panic))
    /\ rcount' = rcount - 1
    /\ UNCHANGED <<tasks, heap, nextID, now, wlocked, snap, created, deleted>>

\* GetTaskStats: ts.mutex.RLock() taken.
BeginStats(p) ==
    /\ CanRLock
    /\ Enter(p, "stats", NoArg)
    /\ rcount' = rcount + 1
    /\ UNCHANGED wlocked

\* GetTaskStats: the body and the deferred RUnlock.
Stats(p) ==
    /\ pc[p] = "stats"
    /\ \E t \in ClockAfter(now) :
          /\ now' = t
          /\ Return(p, [Result("stats", NoErr, NilRef, <<>>, FALSE)
                           EXCEPT !.stats = Ptr(GetTaskStats(Store, t))])
    /\ rcount' = rcount - 1
    /\ UNCHANGED <<tasks, heap, nextID, wlocked, snap, created, deleted>>

\* The operations that take the mutex for writing and for reading.
WriteOps == {"create", "update", "apply", "delete"}
ReadOps == {"get", "list", "search", "stats"}

\* Position of a caller that has invoked an operation and has not yet
\* passed its first statement, ts.mutex.Lock() or ts.mutex.RLock(): the
\* operation it waits to enter.
WaitFor ==
    [wcreate |-> "create", wupdate |-> "update", wdelete |-> "delete",
     wget |-> "get", wlist |-> "list", wsearch |-> "search",
     wstats |-> "stats"]
Waiting == DOMAIN WaitFor

\* The requests of the callers that contend for the mutex: between them
\* they take the normal and the error return of each operation, and the
\* panic of SearchTasks.
ContendedCreates == {BaseCreate}
ContendedUpdates == {TitleOnly}
ContendedQueries == {Nil}
\* The ID they read and update: the one assigned last, which is stored
\* until a Delete removes it.
ContendedIDs == {id \in TargetIDs : id < nextID}

\* The arguments of a call that waits for the mutex, with the kind of the
\* call.
Call(kind, id, req) == [kind |-> kind, id |-> id, req |-> req]

\* A caller invokes an operation and arrives at its first statement.
Invoke(p) ==
    /\ \/ \E r \in ContendedCreates :
             Enter(p, "wcreate", Call("create", 0, r))
       \/ \E i \in ContendedIDs : \E r \in ContendedUpdates :
             Enter(p, "wupdate", Call("update", i, r))
       \/ \E i \in TargetIDs : Enter(p, "wdelete", Call("delete", i, <<>>))
       \/ \E i \in ContendedIDs : Enter(p, "wget", Call("get", i, <<>>))
       \/ \E f \in ListFilters : Enter(p, "wlist", Call("list", 0, f))
       \/ \E q \in ContendedQueries :
             Enter(p, "wsearch", Call("search", 0, q))
       \/ Enter(p, "wstats", Call("stats", 0, <<>>))
    /\ UNCHANGED <<wlocked, rcount>>

\* ts.mutex.Lock() or ts.mutex.RLock() returns to the waiting caller.
Acquire(p) ==
    /\ pc[p] \in Waiting
    /\ IF WaitFor[pc[p]] \in WriteOps
       THEN CanLock /\ wlocked' = TRUE /\ UNCHANGED rcount
       ELSE CanRLock /\ rcount' = rcount + 1 /\ UNCHANGED wlocked
    /\ pc' = [pc EXCEPT ![p] = WaitFor[pc[p]]]
    /\ UNCHANGED <<storeVars, limiterVars, now, arg, ret, view, resp, snap,
                   nops, created, deleted>>

\* The body of the operation whose lock the caller holds, up to its return
\* and the deferred unlock.
Body(p) ==
    \/ Create(p)
    \/ Get(p)
    \/ Update(p)
    \/ Delete(p)
    \/ List(p)
    \/ Search(p)
    \/ Stats(p)

\* ----------------------------------------------- the rate limiter's steps
\* The error the middleware answers a limited request with, status 429.
RateLimitErr == [kind |-> "too_many_requests", msg |-> "Rate limit exceeded"]

\* The X-RateLimit headers of a response.
RateLimitHeaders(limit, remaining) ==
    Ptr([limit |-> limit, remaining |-> remaining])

\* Handler: a request of some client arrives at the middleware.
BeginRequest(p) ==
    /\ \E ip \in ClientIPs : Enter(p, "handler", [id |-> 0, req |-> ip])
    /\ UNCHANGED <<wlocked, rcount>>

\* Handler with the limit off: the request goes on to next.ServeHTTP.
PassUnlimited(p) ==
    /\ pc[p] = "handler"
    /\ rateLimit <= 0
    /\ passed' = Append(passed, [ip |-> arg[p].req, at |-> now])
    /\ ret' = [ret EXCEPT ![p] = Result("next", NoErr, NilRef, <<>>, FALSE)]
    /\ pc' = [pc EXCEPT ![p] = "idle"]
    /\ UNCHANGED <<storeVars, now, wlocked, rcount, arg, view, resp, snap,
                   nops, created, deleted, rateLimit, clients, tickerStopped,
                   tickPending, cleanupPc, recordedAt>>

\* Handler: rlm.isRateLimited(clientIP) under the read lock, and the 429
\* answer when it says so.
IsRateLimited(p) ==
    /\ pc[p] = "handler"
    /\ rateLimit > 0
    /\ \E t \in ClockAfter(now) :
          /\ now' = t
          /\ IF isRateLimited(clients, arg[p].req, t, rateLimit)
             THEN /\ ret' = [ret EXCEPT ![p] =
                                Result("limited", RateLimitErr, NilRef, <<>>,
                                       FALSE)]
                  /\ resp' = [resp EXCEPT ![p] =
                                 RateLimitHeaders(rateLimit, 0)]
                  /\ pc' = [pc EXCEPT ![p] = "idle"]
             ELSE /\ pc' = [pc EXCEPT ![p] = "record"]
                  /\ UNCHANGED <<ret, resp>>
    /\ UNCHANGED <<storeVars, limiterVars, wlocked, rcount, arg, view, snap,
                   nops, created, deleted>>

\* Handler: rlm.recordRequest(clientIP) under the write lock.
RecordRequest(p) ==
    /\ pc[p] = "record"
    /\ \E t \in ClockAfter(now) :
          /\ now' = t
          /\ clients' = recordRequest(clients, arg[p].req, t)
          /\ recordedAt' = [recordedAt EXCEPT ![p] = t]
    /\ pc' = [pc EXCEPT ![p] = "serve"]
    /\ UNCHANGED <<storeVars, wlocked, rcount, arg, ret, view, resp, snap,
                   nops, created, deleted, rateLimit, tickerStopped,
                   tickPending, cleanupPc, passed>>

\* Handler: rlm.getRemainingRequests(clientIP) under the read lock, and the
\* two X-RateLimit headers set from what it returned.
SetHeaders(p) ==
    /\ pc[p] = "serve"
    /\ \E t \in ClockAfter(now) :
          /\ now' = t
          /\ resp' = [resp EXCEPT ![p] =
                         RateLimitHeaders(rateLimit,
                             getRemainingRequests(clients, arg[p].req, t,
                                                  rateLimit))]
    /\ pc' = [pc EXCEPT ![p] = "next"]
    /\ UNCHANGED <<storeVars, limiterVars, wlocked, rcount, arg, ret, view,
                   snap, nops, created, deleted>>

\* Handler: next.ServeHTTP(w, r), the request handed over with the headers
\* it has.
ServeNext(p) ==
    /\ pc[p] = "next"
    /\ passed' = Append(passed, [ip |-> arg[p].req, at |-> recordedAt[p]])
    /\ ret' = [ret EXCEPT ![p] = Result("next", NoErr, NilRef, <<>>, FALSE)]
    /\ pc' = [pc EXCEPT ![p] = "idle"]
    /\ UNCHANGED <<storeVars, now, wlocked, rcount, arg, view, resp, snap,
                   nops, created, deleted, rateLimit, clients, tickerStopped,
                   tickPending, cleanupPc, recordedAt>>

\* The runtime sends a tick of the running ticker to rlm.cleanupTicker.C,
\* which holds one tick at most.
Tick ==
    /\ ~tickerStopped
    /\ ~tickPending
    /\ tickPending' = TRUE
    /\ UNCHANGED <<storeVars, now, wlocked, rcount, pc, arg, ret, view, resp,
                   snap, nops, created, deleted, rateLimit, clients,
                   tickerStopped, cleanupPc, recordedAt, passed>>

\* cleanupOldClients: the range loop receives a tick.
CleanupReceive ==
    /\ cleanupPc = "receive"
    /\ tickPending
    /\ tickPending' = FALSE
    /\ cleanupPc' = "pass"
    /\ UNCHANGED <<storeVars, now, wlocked, rcount, pc, arg, ret, view, resp,
                   snap, nops, created, deleted, rateLimit, clients,
                   tickerStopped, recordedAt, passed>>

\* cleanupOldClients: the loop body under the write lock, back to the
\* receive. The channel of a time.Ticker is never closed, so the range loop
\* has no exit.
CleanupPass ==
    /\ cleanupPc = "pass"
    /\ \E t \in ClockAfter(now) :
          /\ now' = t
          /\ clients' = cleanupPass(clients, t)
    /\ cleanupPc' = "receive"
    /\ UNCHANGED <<storeVars, wlocked, rcount, pc, arg, ret, view, resp, snap,
                   nops, created, deleted, rateLimit, tickerStopped,
                   tickPending, recordedAt, passed>>

\* Stop: rlm.cleanupTicker.Stop(). No tick is sent afterwards; a tick that
\* was sent and not yet received stays in the channel or is dropped,
\* depending on the Go release the program is built with.
Stop ==
    /\ ~tickerStopped
    /\ tickerStopped' = TRUE
    /\ tickPending' \in {tickPending, FALSE}
    /\ UNCHANGED <<storeVars, now, wlocked, rcount, pc, arg, ret, view, resp,
                   snap, nops, created, deleted, rateLimit, clients,
                   cleanupPc, recordedAt, passed>>

\* ------------------------------------------------------------ the handlers
\* net/http status codes the task handlers answer with.
StatusOK == 200
StatusCreated == 201
StatusNoContent == 204
StatusBadRequest == 400
StatusNotFound == 404

\* The status code the handler of op writes when the service call it made
\* returned err: GetTask and DeleteTask answer every error with 404,
\* CreateTask and UpdateTask answer every error with 400.
HandlerStatus(op, err) ==
    CASE op = "get" -> IF err # NoErr THEN StatusNotFound ELSE StatusOK
      [] op = "create" -> IF err # NoErr THEN StatusBadRequest ELSE StatusCreated
      [] op = "update" -> IF err # NoErr THEN StatusBadRequest ELSE StatusOK
      [] op = "delete" -> IF err # NoErr THEN StatusNotFound ELSE StatusNoContent
      [] OTHER -> StatusOK

\* -------------------------------------------------- the caller's encoding
\* The fields of models.Task in the order encoding/json reads them.
TaskFields ==
    <<"ID", "Title", "Description", "Status", "Priority", "CreatedAt",
      "UpdatedAt", "AssignedTo", "Tags">>

\* The bytes of the strings the store holds as status and priority.
Spell(s) ==
    CASE s = "pending" -> <<"p", "e", "n", "d", "i", "n", "g">>
      [] s = "in-progress" -> <<"i", "n", "-", "p", "r", "o", "g", "r", "e", "s", "s">>
      [] s = "completed" -> <<"c", "o", "m", "p", "l", "e", "t", "e", "d">>
      [] s = "cancelled" -> <<"c", "a", "n", "c", "e", "l", "l", "e", "d">>
      [] s = "low" -> <<"l", "o", "w">>
      [] s = "medium" -> <<"m", "e", "d", "i", "u", "m">>
      [] s = "high" -> <<"h", "i", "g", "h">>
      [] s = "critical" -> <<"c", "r", "i", "t", "i", "c", "a", "l">>

\* The value of field f of the task object obj as the encoder loads it:
\* status and priority by their bytes, like the other strings.
Load(f, obj) == IF f \in {"Status", "Priority"} THEN Spell(obj[f]) ELSE obj[f]

\* The first n bytes of the string s as encoding/json writes them: the
\* runes that lie within them, and U+FFFD for each byte of a rune that the
\* n-th byte cuts.
RECURSIVE BytePrefix(_, _)
BytePrefix(s, n) ==
    IF n = 0 \/ s = <<>> THEN <<>>
    ELSE LET w == ByteLen(<<Head(s)>>) IN
         IF w <= n THEN <<Head(s)>> \o BytePrefix(Tail(s), n - w)
         ELSE Repeat("U+FFFD", n)

\* What the encoder can take the ID, a time or a string for when its load
\* of the first word of the field saw the word of one of the values of
\* firsts and its load of the second word that of one of seconds. The encoder
\* holds no lock (response.go:23), so an assignment of UpdateTask can fall
\* between the two loads, and the order of the loads, like the order of the
\* stores of the assignment, is the compiler's. ID is one word, read by one
\* load. Of a time.Time the encoder uses the wall word and the location,
\* which is the same for every time.Now(): it has one value or the other. A
\* string is a pointer and a length: with the pointer of x and the length of
\* y the encoder reads x, when the two are one value, a prefix of x with
\* the shorter length, and with the longer one it reads on past the end of
\* the data, the bytes that the memory holds there ("past"), or the read
\* faults.
ReadOutcomes(f, firsts, seconds) ==
    LET Read(v) == [fault |-> FALSE, val |-> v]
        Pair(x, y) ==
            IF ByteLen(y) <= ByteLen(x) THEN {Read(BytePrefix(x, ByteLen(y)))}
            ELSE {Read(x \o Repeat("past", ByteLen(y) - ByteLen(x))),
                  [fault |-> TRUE, val |-> x]}
    IN IF f \in {"ID", "CreatedAt", "UpdatedAt"} THEN {Read(x) : x \in firsts}
       ELSE UNION {Pair(x, y) : x \in firsts, y \in seconds}

\* task.AssignedTo = ... and task.Tags = req.Tags (task.go:253, 256) store
\* the words of a string or slice header, the data pointer and the length,
\* one by one and in the order of the compiler, and the processor can show
\* them to another goroutine in either order. The value of field f whose
\* words an encoder of the object at addr can find stored already beside
\* the words of h[addr][f], none if there is no such value: the one that an
\* UpdateTask which has made the assignments before this one, and none
\* after, is assigning.
InFlight(addr, f, h) ==
    {ApplyUpdate(h[addr], arg[q].req, now)[f] :
        q \in {c \in Callers :
                  /\ pc[c] \in {"update", "apply"}
                  /\ LET r == UpdateTask(Store, arg[c].id, arg[c].req, now)
                     IN /\ r.err = NoErr
                        /\ r.ref = addr
                        /\ \E w \in {PendingWrites(h[addr], r.store.heap[addr])} :
                              /\ w # {}
                              /\ \A i \in w : UpdateOrder[i] = f
                                              \/ \E j \in w : j < i}}

\* The encoder at its first read of the task object obj, the tasks done
\* written: the read it is at, the values it has for the fields before, its
\* first load of the field, of the tags their number and those read so far,
\* and the value in flight of which it has seen the length and the data
\* pointer stored.
StartTask(done, obj) ==
    [done |-> done, got |-> <<>>, item |-> "ID", first |-> Load("ID", obj),
     n |-> 0, elems |-> <<>>, lenSeen |-> {}, dataSeen |-> {}]

\* SendSuccess / SendCreated on the *models.Task a handler got from
\* GetTask, CreateTask or UpdateTask, or on the []*models.Task it got from
\* GetAllTasks or SearchTasks: the encoder reads the fields of each object
\* through its pointer, one after the other, after the store's lock was
\* released. Its first step is the first load of the first field; an empty
\* slice is written at once.
EncodeFirst(p) ==
    /\ pc[p] = "idle"
    /\ ret[p].op \in {"get", "create", "update", "list", "search"}
    /\ ret[p].err = NoErr /\ ~ret[p].panic
    /\ resp[p] = Nil
    /\ LET ptrs == Pointers(p) IN
       /\ snap' = [snap EXCEPT ![p] = [i \in 1..Len(ptrs) |-> {heap[ptrs[i]]}]]
       /\ IF ptrs = <<>>
          THEN /\ resp' = [resp EXCEPT ![p] = Ptr(<<>>)]
               /\ UNCHANGED <<pc, view>>
          ELSE /\ view' = [view EXCEPT ![p] = StartTask(<<>>, heap[ptrs[1]])]
               /\ pc' = [pc EXCEPT ![p] = "encode"]
               /\ UNCHANGED resp
    /\ UNCHANGED <<storeVars, limiterVars, now, wlocked, rcount, arg, ret,
                   nops, created, deleted>>

\* Each further step is one read of the struct encoder, in the order of
\* ReadItems. Up to UpdatedAt a step completes the read of a field: it is
\* the second load of the read the encoder is at and the first load of the
\* read after it. The two omitempty fields are read by several loads of
\* their header, each a step of its own that finds a word as it is in the
\* object or as the assignment in flight stores it; a word seen stored
\* stays so. Of the assignee isEmptyValue loads the length ("AssignedTo?"),
\* the string encoder then the pointer and the length ("AssignedTo"). Of
\* the tags isEmptyValue loads the length ("Tags?"), the slice encoder the
\* data pointer for its test for nil ("TagsNil") and the length for the
\* number of elements ("TagsLen"), and Value.Index for every element the
\* length, for its bounds check that panics ("TagLen"), and the data
\* pointer ("TagData"): it reads the element of that array, or past its end
\* the string that the memory holds there (<<"past">>) or a fault. A field
\* found empty is left out, and a nil slice is written as null, which the
\* response shows as the empty value; whether a slice without elements is
\* nil (a request that had no tags) or not (one that had none in its list)
\* the store does not tell. The step after the last read of the last object
\* writes the response. A read that faults or panics ends the handler
\* without a response.
EncodeNext(p) ==
    /\ pc[p] = "encode"
    /\ LET ReadItems ==
               <<"ID", "Title", "Description", "Status", "Priority",
                 "CreatedAt", "UpdatedAt", "AssignedTo?", "AssignedTo",
                 "Tags?", "TagsNil", "TagsLen", "TagLen", "TagData">>
           FieldOf(item) ==
               CASE item = "AssignedTo?" -> "AssignedTo"
                 [] item \in {"Tags?", "TagsNil", "TagsLen", "TagLen",
                              "TagData"} -> "Tags"
                 [] OTHER -> item
           v == view[p]
           ptrs == Pointers(p)
           i == Len(v.done) + 1
           f == FieldOf(v.item)
           obj == heap[ptrs[i]]
           b == Load(f, obj)
           flight == InFlight(ptrs[i], f, heap)
           lens == IF v.lenSeen \cap flight # {} THEN flight
                   ELSE {b} \cup flight
           datas == IF v.dataSeen \cap flight # {} THEN flight
                    ELSE {b} \cup flight
           Seen(x) ==
               snap' = [snap EXCEPT ![p][i] =
                           @ \cup {[obj EXCEPT ![f] = y] : y \in {x} \cap flight}]
           Go(w, item) ==
               /\ view' = [view EXCEPT ![p] = [w EXCEPT !.item = item]]
               /\ UNCHANGED <<pc, resp>>
           Advance(got, item) ==
               Go([v EXCEPT !.got = got,
                            !.first = Load(FieldOf(item), obj),
                            !.lenSeen = {}, !.dataSeen = {}], item)
           Finish(tags) ==
               LET vals == Append(v.got, tags)
                   task == [t \in {TaskFields[j] : j \in 1..Len(TaskFields)} |->
                               vals[CHOOSE j \in 1..Len(TaskFields) :
                                       TaskFields[j] = t]]
                   done == Append(v.done, task) IN
               IF i < Len(ptrs)
               THEN /\ view' = [view EXCEPT ![p] =
                                   StartTask(done, heap[ptrs[i + 1]])]
                    /\ UNCHANGED <<pc, resp>>
               ELSE /\ resp' = [resp EXCEPT ![p] = Ptr(done)]
                    /\ view' = [view EXCEPT ![p] = <<>>]
                    /\ pc' = [pc EXCEPT ![p] = "idle"]
           Fault ==
               /\ pc' = [pc EXCEPT ![p] = "fault"]
               /\ view' = [view EXCEPT ![p] = <<>>]
               /\ UNCHANGED resp
           k == CHOOSE j \in 1..Len(ReadItems) : ReadItems[j] = v.item
           e == Len(v.elems) + 1
       IN CASE v.item = "AssignedTo?" ->
                   \E l \in lens :
                      /\ Seen(l)
                      /\ IF l = <<>> THEN Advance(Append(v.got, <<>>), "Tags?")
                         ELSE Go([v EXCEPT !.lenSeen = {l} \cap flight],
                                 "AssignedTo")
            [] v.item = "AssignedTo" ->
                   \E d \in datas : \E l \in lens :
                   \E o \in ReadOutcomes(f, {d}, {l}) :
                      /\ Seen(IF l \in flight THEN l ELSE d)
                      /\ IF o.fault THEN Fault
                         ELSE Advance(Append(v.got, o.val), "Tags?")
            [] v.item = "Tags?" ->
                   \E l \in lens :
                      /\ Seen(l)
                      /\ IF l = <<>> THEN Finish(<<>>)
                         ELSE Go([v EXCEPT !.lenSeen = {l} \cap flight],
                                 "TagsNil")
            [] v.item = "TagsNil" ->
                   \E d \in datas :
                      /\ Seen(d)
                      /\ \/ d = <<>> /\ Finish(<<>>)
                         \/ Go([v EXCEPT !.dataSeen = {d} \cap flight],
                               "TagsLen")
            [] v.item = "TagsLen" ->
                   \E l \in lens :
                      /\ Seen(l)
                      /\ IF l = <<>> THEN Finish(<<>>)
                         ELSE Go([v EXCEPT !.lenSeen = {l} \cap flight,
                                           !.n = Len(l)], "TagLen")
            [] v.item = "TagLen" ->
                   \E l \in lens :
                      /\ Seen(l)
                      /\ IF e > Len(l) THEN Fault
                         ELSE Go([v EXCEPT !.lenSeen = {l} \cap flight],
                                 "TagData")
            [] v.item = "TagData" ->
                   \E d \in datas :
                   \E o \in IF e <= Len(d)
                            THEN {[fault |-> FALSE, val |-> d[e]]}
                            ELSE {[fault |-> FALSE, val |-> <<"past">>],
                                  [fault |-> TRUE, val |-> <<>>]} :
                      /\ Seen(d)
                      /\ IF o.fault THEN Fault
                         ELSE IF e = v.n
                         THEN Finish(Append(v.elems, o.val))
                         ELSE Go([v EXCEPT !.elems = Append(v.elems, o.val),
                                           !.dataSeen = {d} \cap flight],
                                 "TagLen")
            [] OTHER ->
                   \E o \in ReadOutcomes(f, IF f = "ID" THEN {v.first}
                                            ELSE {v.first, b}, {v.first, b}) :
                      /\ UNCHANGED snap
                      /\ IF o.fault THEN Fault
                         ELSE Advance(Append(v.got, o.val), ReadItems[k + 1])
    /\ UNCHANGED <<storeVars, limiterVars, now, wlocked, rcount, arg, ret,
                   nops, created, deleted>>

\* Two callers of the store, each operation of it theirs to call.
Next ==
    \E p \in Callers :
        \/ BeginCreate(p, CreateRequests)
        \/ Create(p)
        \/ BeginGet(p)
        \/ Get(p)
        \/ BeginUpdate(p, UpdateRequests)
        \/ Update(p)
        \/ BeginDelete(p)
        \/ Delete(p)
        \/ BeginList(p)
        \/ List(p)
        \/ BeginSearch(p, CallerQueries)
        \/ Search(p)
        \/ BeginStats(p)
        \/ Stats(p)

Spec == Init /\ [][Next]_vars

\* The constructions the probing requests, the contending callers and the
\* HTTP handlers start from: a store the sample tasks fill and the largest
\* store, built within one reading of the clock.
InitTwoStores ==
    /\ Init
    /\ maxTasks \in {Len(SampleTasks), MaxCap}
    /\ now = 0

\* The store with the task handlers as callers: GetTasks, GetTask,
\* CreateTask, UpdateTask and SearchTasks, which encode the task or the
\* tasks the store returned, DeleteTask, which answers without a body, and
\* GetTaskStats, which encodes the statistics, a value of its own.
NextHTTP ==
    \E p \in Callers :
        \/ BeginCreate(p, {FullCreate})
        \/ Create(p)
        \/ BeginGet(p)
        \/ Get(p)
        \/ BeginUpdate(p, RacingUpdates)
        \/ Update(p)
        \/ BeginList(p)
        \/ List(p)
        \/ BeginSearch(p, CallerQueries)
        \/ Search(p)
        \/ BeginDelete(p)
        \/ Delete(p)
        \/ BeginStats(p)
        \/ Stats(p)
        \/ EncodeFirst(p)
        \/ EncodeNext(p)

\* The handlers in front of the largest store, which has room for one
\* more task than the samples.
InitHTTP ==
    /\ InitTwoStores
    /\ maxTasks = MaxCap

SpecHTTP == InitHTTP /\ [][NextHTTP]_vars

\* One caller that changes the store and lists it with the query filters.
Querier == "c1"

NextQuery ==
    \/ BeginCreate(Querier, CreateRequests)
    \/ Create(Querier)
    \/ BeginUpdate(Querier, UpdateRequests)
    \/ Update(Querier)
    \/ BeginDelete(Querier)
    \/ Delete(Querier)
    \/ BeginQuery(Querier)
    \/ List(Querier)
    \/ BeginStats(Querier)
    \/ Stats(Querier)

SpecQuery == Init /\ [][NextQuery]_vars

\* One caller that changes the store and searches it.
NextSearch ==
    \/ BeginCreate(Querier, CreateRequests)
    \/ Create(Querier)
    \/ BeginUpdate(Querier, UpdateRequests)
    \/ Update(Querier)
    \/ BeginDelete(Querier)
    \/ Delete(Querier)
    \/ BeginSearch(Querier, SearchQueries)
    \/ Search(Querier)

SpecSearch == Init /\ [][NextSearch]_vars

\* One caller that changes the store with the probing requests.
NextValid ==
    \/ BeginCreate(Querier, CreateProbes)
    \/ Create(Querier)
    \/ BeginUpdate(Querier, UpdateProbes)
    \/ Update(Querier)
    \/ BeginDelete(Querier)
    \/ Delete(Querier)

SpecValid == InitTwoStores /\ [][NextValid]_vars

\* One caller that changes the store and reads it with each of the four
\* read operations.
NextRead ==
    \/ NextSearch
    \/ BeginGet(Querier)
    \/ Get(Querier)
    \/ BeginList(Querier)
    \/ List(Querier)
    \/ BeginStats(Querier)
    \/ Stats(Querier)

SpecRead == Init /\ [][NextRead]_vars

\* Concurrent callers that wait for the mutex before they hold it. The Go
\* scheduler runs every runnable goroutine again (weak fairness of the
\* bodies), and sync.RWMutex hands the lock to a waiting writer before
\* later readers and to the readers that waited for a writer before the
\* next writer, so that no waiter is passed over forever (strong fairness
\* of the acquisition).
NextFair ==
    \E p \in Callers :
        \/ Invoke(p)
        \/ Acquire(p)
        \/ Body(p)

Fairness ==
    \A p \in Callers : WF_vars(Body(p)) /\ SF_vars(Acquire(p))

SpecFair == InitTwoStores /\ [][NextFair]_vars /\ Fairness

\* The rate limiting middleware in front of requests that arrive
\* concurrently, its cleanup goroutine and the Stop of main. The Go scheduler
\* runs every runnable goroutine again: a handler that can take its next
\* step and the cleanup goroutine when it can receive or clean up.
NextLimiter ==
    \/ \E p \in Callers :
          \/ BeginRequest(p)
          \/ PassUnlimited(p)
          \/ IsRateLimited(p)
          \/ RecordRequest(p)
          \/ SetHeaders(p)
          \/ ServeNext(p)
    \/ Tick
    \/ CleanupReceive
    \/ CleanupPass
    \/ Stop

LimiterFairness ==
    /\ WF_vars(CleanupReceive)
    /\ WF_vars(CleanupPass)
    /\ \A p \in Callers :
          WF_vars(PassUnlimited(p) \/ IsRateLimited(p) \/ RecordRequest(p)
                     \/ SetHeaders(p) \/ ServeNext(p))

\* The middleware built with each of the limits, beside the largest store.
InitLimiter ==
    /\ StoreInit
    /\ maxTasks = MaxCap
    /\ now = 0
    /\ LimiterInit(RateLimits)

SpecLimiter == InitLimiter /\ [][NextLimiter]_vars /\ LimiterFairness

\* ------------------------------------------------------------------ claims
Count == Cardinality(DOMAIN tasks)
WriterCS == {"create", "update", "apply", "delete"}
ReaderCS == {"get", "list", "search", "stats"}
ValidCreate(req) == validateCreateRequest(req) = NoErr
\* Caller p's call of op returns in this step; an UpdateTask returns from
\* its validation or from its last assignment.
Returns(p, op) ==
    /\ pc[p] \in (IF op = "update" THEN {"update", "apply"} ELSE {op})
    /\ pc'[p] = "idle"

\* C1: task IDs are never reused: the IDs successful Create calls returned,
\* in the order of the calls, are strictly increasing, whatever Update and
\* Delete calls came in between.
C1_IDsNeverReused ==
    \A i, j \in 1..Len(created) : i < j => created[i] < created[j]

\* A Create succeeded on a store that was full after construction, so after
\* a Delete made room.
C1_Witness ==
    /\ maxTasks = Len(SampleTasks)
    /\ deleted # {}
    /\ Len(created) > Len(SampleTasks)

\* C2: the number of stored tasks never exceeds the maximum, and a Create
\* of a valid request that runs while the count is at the maximum fails
\* with the capacity error and stores nothing.
C2_CapacityEnforced ==
    /\ Count <= maxTasks
    /\ \A p \in Callers :
          (pc[p] = "create" /\ ValidCreate(arg[p].req) /\ Count >= maxTasks)
          => \A c \in ClockAfter(now) : \A u \in ClockAfter(c) :
                LET r == CreateTask(Store, maxTasks, arg[p].req, c, u) IN
                r.err = CapacityErr /\ r.store = Store

\* A Create of a valid request was refused with the capacity error.
C2_Witness ==
    \E p \in Callers :
        /\ ret[p].op = "create"
        /\ ValidCreate(arg[p].req)
        /\ ret[p].err = CapacityErr
        /\ Count = maxTasks

\* C3 (as claimed): on a store constructed with maximum 1 the first Create
\* call with a valid request succeeds and the next one fails with the
\* capacity error.
C3_FirstCreateSucceeds ==
    \A p \in Callers :
        (maxTasks = 1 /\ ret[p].op = "create" /\ ValidCreate(arg[p].req))
        => /\ nops = 1 => ret[p].err = NoErr
           /\ nops = 2 /\ (\A q \in Callers : ret[q].op = "create"
                                              /\ ValidCreate(arg[q].req))
              => \E q \in Callers : ret[q].err = CapacityErr

\* C4: a Create, Update or Delete that returns an error leaves the task
\* map, every task object and the next-ID counter as they were.
C4_FailedOpChangesNothing ==
    [][\A p \in Callers :
          (pc[p] \in WriterCS /\ pc'[p] = "idle" /\ ret'[p].err # NoErr)
          => (tasks' = tasks /\ heap' = heap /\ nextID' = nextID)]_vars

\* An Update of an existing task was refused by validation.
C4_Witness ==
    \E p \in Callers :
        /\ ret[p].op = "update"
        /\ ret[p].err.kind = "validation"
        /\ arg[p].id \in DOMAIN tasks

\* C5: while a Create, Update or Delete is inside its critical section no
\* other caller is inside a critical section of the store.
C5_WritersExclusive ==
    \A p, q \in Callers :
        (p # q /\ pc[p] \in WriterCS) => pc[q] \notin (WriterCS \cup ReaderCS)

\* A writer is inside its critical section, between two of its writes,
\* and the other caller, back from a Search, is in none.
C5_Witness ==
    \E p, q \in Callers :
        /\ pc[p] = "apply" /\ wlocked /\ rcount = 0
        /\ q # p /\ pc[q] = "idle" /\ ret[q].op = "search"

\* C6 (as claimed): the task a caller reads through the pointer a call
\* returned is one single committed state of that task: each task an HTTP
\* response carries is a state the task object had at some moment while
\* the encoder was reading it.
C6_NoTornRead ==
    \A p \in Callers :
        Present(resp[p])
        => \A i \in 1..Len(Deref(resp[p])) :
              \E s \in snap[p][i] :
                 Deref(resp[p])[i] = [f \in DOMAIN s |-> Load(f, s)]

\* The store just after the step, as a store value.
StoreAfter == [tasks |-> tasks', heap |-> heap', nextID |-> nextID']

\* C7 (as claimed): after Create accepted a request, Get of the returned
\* ID succeeds and returns the request's title, description and assignee
\* trimmed, its status and priority (or "pending" and "medium" for empty
\* ones), its tags, and createdAt equal to updatedAt.
C7_CreateGetRoundTrip ==
    [][\A p \in Callers :
          (Returns(p, "create") /\ ret'[p].err = NoErr)
          => LET req == arg[p].req
                 g == GetTask(StoreAfter, heap'[ret'[p].ref].ID)
             IN /\ g.err = NoErr
                /\ LET t == heap'[g.ref] IN
                   /\ t.Title = TrimSpace(req.Title)
                   /\ t.Description = TrimSpace(req.Description)
                   /\ t.AssignedTo = TrimSpace(req.AssignedTo)
                   /\ t.Status = (IF req.Status = "" THEN "pending"
                                  ELSE req.Status)
                   /\ t.Priority = (IF req.Priority = "" THEN "medium"
                                    ELSE req.Priority)
                   /\ t.Tags = req.Tags
                   /\ t.CreatedAt = t.UpdatedAt]_vars

\* A request whose only present field is the title.
TitleOnlyRequest(req) ==
    /\ Present(req.Title)
    /\ ~Present(req.Description) /\ ~Present(req.Status)
    /\ ~Present(req.Priority) /\ ~Present(req.AssignedTo)
    /\ ~Present(req.Tags)

\* C8: a successful Update whose only present field is the title changes
\* the title and updatedAt of that task and nothing else in the store, and
\* the new updatedAt is not earlier than the old one: no step taken between
\* the lookup of such an Update and its return changes anything but the
\* title, to the trimmed title of the request, and updatedAt, to a value
\* that is not earlier, and at the return the task has the new title.
C8_UpdateIsPartial ==
    [][\A p \in Callers :
          (pc[p] \in {"update", "apply"} /\ TitleOnlyRequest(arg[p].req)
           /\ arg[p].id \in DOMAIN tasks)
          => LET a == tasks[arg[p].id]
                 old == heap[a]
                 new == heap'[a]
             IN /\ tasks' = tasks /\ nextID' = nextID
                /\ DOMAIN heap' = DOMAIN heap
                /\ \A b \in DOMAIN heap : b # a => heap'[b] = heap[b]
                /\ new.Title \in {old.Title,
                                  TrimSpace(Deref(arg[p].req.Title))}
                /\ (pc'[p] = "idle" /\ ret'[p].err = NoErr) =>
                      /\ ret'[p].ref = a
                      /\ new.Title = TrimSpace(Deref(arg[p].req.Title))
                /\ new.ID = old.ID
                /\ new.Description = old.Description
                /\ new.Status = old.Status
                /\ new.Priority = old.Priority
                /\ new.AssignedTo = old.AssignedTo
                /\ new.Tags = old.Tags
                /\ new.CreatedAt = old.CreatedAt
                /\ new.UpdatedAt >= old.UpdatedAt]_vars

\* An Update with only a title succeeded on a task that has tags, and the
\* clock had moved on since the task's last change.
C8_Witness ==
    \E p \in Callers :
        /\ ret[p].op = "update" /\ ret[p].err = NoErr
        /\ TitleOnlyRequest(arg[p].req)
        /\ heap[ret[p].ref].Title = TrimSpace(Deref(arg[p].req.Title))
        /\ heap[ret[p].ref].Tags # <<>>
        /\ heap[ret[p].ref].UpdatedAt > heap[ret[p].ref].CreatedAt

\* C9: once Delete(id) succeeded, id is not in the store again, and every
\* Get, Update and Delete of id that returns afterwards returns the
\* not-found error, whatever Create calls happened in between.
C9_DeleteIsPermanent ==
    [][/\ deleted' \cap DOMAIN tasks' = {}
       /\ \A p \in Callers :
             (pc[p] \in {"get", "update", "apply", "delete"} /\ pc'[p] = "idle"
              /\ arg[p].id \in deleted)
             => ret'[p].err = NotFoundErr]_vars

\* A Delete of an ID that had been deleted before returned not-found.
C9_Witness ==
    \E p \in Callers :
        /\ ret[p].op = "delete"
        /\ arg[p].id \in deleted
        /\ ret[p].err = NotFoundErr

\* The int is greater than 0.
Positive(a) == IntLess(GoInt(0), a)

\* The filter asks for no pagination: GetAllTasks paginates only when the
\* limit or the offset is positive.
Unpaginated(filter) ==
    \/ ~Present(filter)
    \/ ~Positive(Deref(filter).Limit) /\ ~Positive(Deref(filter).Offset)

EmptyOrAbsent(filter) ==
    \/ ~Present(filter)
    \/ /\ Deref(filter).Status = ""
       /\ Deref(filter).Priority = ""
       /\ Deref(filter).AssignedTo = <<>>
       /\ Deref(filter).Tags = <<>>

Elems(seq) == {seq[i] : i \in 1..Len(seq)}

\* The task satisfies every field the filter sets.
Satisfies(task, filter) ==
    \/ ~Present(filter)
    \/ LET f == Deref(filter) IN
       /\ f.Status = "" \/ task.Status = f.Status
       /\ f.Priority = "" \/ task.Priority = f.Priority
       /\ f.AssignedTo = <<>> \/ task.AssignedTo = f.AssignedTo
       /\ f.Tags = <<>> \/ Elems(task.Tags) \cap Elems(f.Tags) # {}

\* C10: a List without pagination returns exactly the stored tasks that
\* satisfy every non-empty filter field (status, priority and assignee
\* equal, at least one tag in common), each at most once, and returns every
\* stored task when the filter is empty or absent.
C10_ListReturnsMatchingSubset ==
    [][\A p \in Callers :
          (pc[p] = "list" /\ pc'[p] = "idle" /\ Unpaginated(arg[p].req)) =>
              LET out == ret'[p].list
                  f == arg[p].req
              IN /\ ~ret'[p].panic
                 /\ \A k \in DOMAIN tasks :
                       (tasks[k] \in Elems(out)) <=> Satisfies(heap[tasks[k]], f)
                 /\ \A i \in 1..Len(out) :
                       \E k \in DOMAIN tasks : tasks[k] = out[i]
                 /\ \A i, j \in 1..Len(out) : out[i] = out[j] => i = j
                 /\ EmptyOrAbsent(f) =>
                       Elems(out) = {tasks[k] : k \in DOMAIN tasks}]_vars

\* A List by status and tags has returned two tasks, one for each of two
\* filter tags, and left out a stored task that shares a tag with the filter
\* but has another status.
C10_Witness ==
    \E p \in Callers :
        /\ ret[p].op = "list"
        /\ pc[p] = "idle"
        /\ Present(arg[p].req)
        /\ Deref(arg[p].req).Status # ""
        /\ Len(Deref(arg[p].req).Tags) > 1
        /\ Len(ret[p].list) = 2
        /\ \E k \in DOMAIN tasks :
              /\ tasks[k] \notin Elems(ret[p].list)
              /\ Elems(heap[tasks[k]].Tags) \cap Elems(Deref(arg[p].req).Tags) # {}

\* The stored tasks that satisfy the filter.
SatisfyingTasks(f) ==
    {tasks[k] : k \in {i \in DOMAIN tasks : Satisfies(heap[tasks[i]], f)}}

\* The elements of s at positions [offset, offset + limit), clamped to the
\* length of s, when limit > 0, and all elements from offset on otherwise,
\* for an offset that is not negative.
Window(s, limit, offset) ==
    IF ~IntLess(offset, GoInt(Len(s))) THEN <<>>
    ELSE SubSeq(s, IntVal(offset) + 1,
                IF Positive(limit) /\ IntLess(limit, GoInt(Len(s) - IntVal(offset)))
                THEN IntVal(offset) + IntVal(limit) ELSE Len(s))

\* C11 (as claimed): for a filter with offset >= 0, List returns the window
\* [offset, offset + limit) of the sorted matching sequence, clamped to its
\* length, when limit > 0, all of it from offset on when limit <= 0, and the
\* empty sequence, without error, when offset is at least the number of
\* matches.
C11_PaginationWindow ==
    [][\A p \in Callers :
          (pc[p] = "list" /\ pc'[p] = "idle" /\ Present(arg[p].req)
           /\ ~IsNegative(Deref(arg[p].req).Offset))
          => LET f == Deref(arg[p].req) IN
             /\ ~ret'[p].panic
             /\ ret'[p].err = NoErr
             /\ \E s \in sortTasks(heap, SatisfyingTasks(arg[p].req)) :
                   ret'[p].list = Window(s, f.Limit, f.Offset)]_vars

\* C12 (as claimed): for every filter, a negative offset or limit included,
\* List returns a sequence or an error value and never panics on a slice
\* expression out of range.
C12_ListNeverPanics ==
    \A p \in Callers : ret[p].op = "list" => ~ret[p].panic

\* The fields a search looks in: title and description when none is
\* requested, else those of the two that are requested.
RequestedFields(fields) ==
    IF fields = <<>> THEN {"title", "description"}
    ELSE Elems(fields) \cap {"title", "description"}

FieldText(task, field) ==
    IF field = "title" THEN task.Title ELSE task.Description

\* The text is empty or, compared without regard to case, a substring of a
\* requested field of the task.
TextMatches(task, text, fields) ==
    \/ text = <<>>
    \/ \E f \in RequestedFields(fields) :
          Contains(ToLower(FieldText(task, f)), ToLower(text))

\* C13 (as claimed): a stored task is in the Search result if and only if
\* it satisfies the embedded filter and the query string is empty or is,
\* without regard to case, a substring of a requested field among title and
\* description, an empty field set meaning both.
C13_SearchMatchesQuery ==
    [][\A p \in Callers :
          (Returns(p, "search") /\ Present(arg[p].req))
          => LET q == Deref(arg[p].req) IN
             /\ ~ret'[p].panic
             /\ \A k \in DOMAIN tasks :
                   (tasks[k] \in Elems(ret'[p].list))
                   <=> /\ Satisfies(heap[tasks[k]], Ptr(q.Filters))
                       /\ TextMatches(heap[tasks[k]], q.Query, q.Fields)]_vars

\* C13 (amended): a stored task is in the Search result if and only if it
\* satisfies the embedded filter and the query string with its surrounding
\* white space trimmed is empty or is, without regard to case, a substring
\* of a requested field among title and description, an empty field set
\* meaning both; the result holds stored tasks only.
C13_SearchMatchesTrimmedQuery ==
    [][\A p \in Callers :
          (Returns(p, "search") /\ Present(arg[p].req))
          => LET q == Deref(arg[p].req) IN
             /\ ~ret'[p].panic
             /\ Elems(ret'[p].list) \subseteq {tasks[k] : k \in DOMAIN tasks}
             /\ \A k \in DOMAIN tasks :
                   (tasks[k] \in Elems(ret'[p].list))
                   <=> /\ Satisfies(heap[tasks[k]], Ptr(q.Filters))
                       /\ TextMatches(heap[tasks[k]], TrimSpace(q.Query),
                                      q.Fields)]_vars

\* A Search whose query differs from a title in case and has white space
\* after it has returned the task with that title and left others out.
C13_Witness ==
    \E p \in Callers :
        /\ ret[p].op = "search" /\ pc[p] = "idle" /\ Present(arg[p].req)
        /\ LET q == Deref(arg[p].req) IN
           /\ q.Query # TrimSpace(q.Query)
           /\ TrimSpace(q.Query) # ToLower(TrimSpace(q.Query))
           /\ \E i \in 1..Len(ret[p].list) :
                 /\ Contains(ToLower(heap[ret[p].list[i]].Title),
                             ToLower(TrimSpace(q.Query)))
                 /\ ~Contains(heap[ret[p].list[i]].Title, TrimSpace(q.Query))
           /\ \E k \in DOMAIN tasks : tasks[k] \notin Elems(ret[p].list)

\* The rank of a priority: low < medium < high < critical.
PriorityRanks == <<"low", "medium", "high", "critical">>
RankOf(priority) == CHOOSE i \in 1..Len(PriorityRanks) : PriorityRanks[i] = priority

\* The value a search orders task t by, and whether it orders descending.
SortKey(t, sortBy) ==
    CASE sortBy = "created_at" -> t.CreatedAt
      [] sortBy = "updated_at" -> t.UpdatedAt
      [] sortBy = "priority" -> RankOf(t.Priority)
      [] OTHER -> t.CreatedAt
SortsDescending(q) ==
    IF q.SortBy \in {"created_at", "updated_at", "priority"} THEN q.SortDesc
    ELSE TRUE

\* C14: a Search result is ordered by the requested key, created_at,
\* updated_at or priority (low < medium < high < critical), non-decreasing
\* when ascending and non-increasing when descending, and by createdAt
\* descending, whatever the direction, for any other sort key.
C14_SearchOrdering ==
    [][\A p \in Callers :
          (Returns(p, "search") /\ Present(arg[p].req))
          => LET q == Deref(arg[p].req)
                 out == ret'[p].list
             IN \A i, j \in 1..Len(out) :
                   i < j =>
                     LET ki == SortKey(heap[out[i]], q.SortBy)
                         kj == SortKey(heap[out[j]], q.SortBy)
                     IN IF SortsDescending(q) THEN ki >= kj ELSE ki <= kj]_vars

\* A Search by priority, descending, has returned tasks of three different
\* priorities.
C14_Witness ==
    \E p \in Callers :
        /\ ret[p].op = "search" /\ pc[p] = "idle" /\ Present(arg[p].req)
        /\ Deref(arg[p].req).SortBy = "priority"
        /\ Deref(arg[p].req).SortDesc
        /\ Cardinality({heap[a].Priority : a \in Elems(ret[p].list)}) >= 3

\* The sum of the values of a map.
RECURSIVE SumOf(_)
SumOf(m) ==
    IF DOMAIN m = {} THEN 0
    ELSE LET k == CHOOSE x \in DOMAIN m : TRUE
         IN m[k] + SumOf([x \in DOMAIN m \ {k} |-> m[x]])

\* C15: every Stats result, under any interleaving with concurrent Create,
\* Update and Delete calls, has TotalTasks equal to the number of tasks
\* stored at the moment it was taken, and its TasksByStatus values, like its
\* TasksByPriority values, sum to TotalTasks.
C15_StatsConsistent ==
    [][\A p \in Callers :
          Returns(p, "stats")
          => /\ Present(ret'[p].stats)
             /\ LET st == Deref(ret'[p].stats) IN
                /\ st.TotalTasks = Cardinality(DOMAIN tasks)
                /\ SumOf(st.TasksByStatus) = st.TotalTasks
                /\ SumOf(st.TasksByPriority) = st.TotalTasks]_vars

\* A Stats call made after another caller's Create or Delete changed the
\* store returned counts for tasks of several statuses, one of them without
\* an assignee.
C15_Witness ==
    \E p \in Callers :
        /\ ret[p].op = "stats" /\ Present(ret[p].stats)
        /\ Deref(ret[p].stats).TotalTasks >= 3
        /\ Cardinality(DOMAIN Deref(ret[p].stats).TasksByStatus) >= 2
        /\ SumOf(Deref(ret[p].stats).TasksByUser) < Deref(ret[p].stats).TotalTasks
        /\ \E q \in Callers \ {p} :
              ret[q].op \in {"create", "delete"} /\ ret[q].err = NoErr

\* The filter that asks for status pending and nothing else.
PendingFilter == Ptr([NoFilter EXCEPT !.Status = "pending"])

\* C16: right after construction with a maximum of at least 4 the store
\* holds exactly the four sample tasks, under the IDs 1 to 4, a Stats call
\* reports TotalTasks 4, and a List with status pending returns exactly the
\* two sample tasks seeded as pending.
C16_InitialState ==
    (maxTasks >= 4 /\ nops <= 1) =>
        /\ nops = 0 =>
              /\ DOMAIN tasks = 1..4
              /\ \A i \in 1..4 :
                    LET t == heap[tasks[i]] IN
                    /\ t.ID = i
                    /\ t.Title = SampleTasks[i].Title
                    /\ t.Description = SampleTasks[i].Description
                    /\ t.Status = SampleTasks[i].Status
                    /\ t.Priority = SampleTasks[i].Priority
                    /\ t.AssignedTo = SampleTasks[i].AssignedTo
                    /\ t.Tags = SampleTasks[i].Tags
        /\ \A p \in Callers :
              /\ ret[p].op = "stats" => Deref(ret[p].stats).TotalTasks = 4
              /\ (ret[p].op = "list" /\ arg[p].req = PendingFilter) =>
                    /\ Len(ret[p].list) = 2
                    /\ {heap[a].ID : a \in Elems(ret[p].list)}
                          = {i \in 1..4 : SampleTasks[i].Status = "pending"}

\* The first call on a store built with room for the samples was a List
\* with status pending, and it has returned.
C16_Witness ==
    /\ maxTasks >= 4 /\ nops = 1
    /\ \E p \in Callers :
          /\ ret[p].op = "list" /\ arg[p].req = PendingFilter
          /\ Len(ret[p].list) = 2

\* C17: in every state that Create, Update and Delete calls, accepted or
\* rejected, lead to, every stored task has one of the four statuses, one of
\* the four priorities, and a title that is neither empty nor white space
\* only.
C17_FieldsValid ==
    \A k \in DOMAIN tasks :
        LET t == heap[tasks[k]] IN
        /\ t.Status \in {"pending", "in-progress", "completed", "cancelled"}
        /\ t.Priority \in {"low", "medium", "high", "critical"}
        /\ \E i \in 1..Len(t.Title) : t.Title[i] \notin Whitespace

\* An Update has set a task's status, and the call after it, an Update
\* that names no status or priority of the four, or a title of white space,
\* was rejected.
C17_Witness ==
    /\ \E k \in DOMAIN tasks : heap[tasks[k]].Status = "cancelled"
    /\ \E p \in Callers :
          /\ ret[p].op = "update" /\ ret[p].err.kind = "validation"
          /\ arg[p].id \in DOMAIN tasks
          /\ \/ Present(arg[p].req.Status)
             \/ Present(arg[p].req.Priority)
             \/ Present(arg[p].req.Title)

\* C18: with a clock that never runs backwards, every stored task has
\* updatedAt >= createdAt in every reachable state, its createdAt never
\* changes after Create, and its updatedAt never decreases.
C18_TimestampsOrdered ==
    /\ \A k \in DOMAIN tasks :
          heap[tasks[k]].UpdatedAt >= heap[tasks[k]].CreatedAt
    /\ [][/\ \A k \in DOMAIN tasks' :
                heap'[tasks'[k]].UpdatedAt >= heap'[tasks'[k]].CreatedAt
          /\ \A k \in DOMAIN tasks \cap DOMAIN tasks' :
                /\ heap'[tasks'[k]].CreatedAt = heap[tasks[k]].CreatedAt
                /\ heap'[tasks'[k]].UpdatedAt >= heap[tasks[k]].UpdatedAt]_vars

\* An Update that set a priority has stamped a task, created at an earlier
\* reading of the clock, with a later one.
C18_Witness ==
    \E p \in Callers :
        /\ ret[p].op = "update" /\ ret[p].err = NoErr
        /\ Present(arg[p].req.Priority)
        /\ heap[ret[p].ref].UpdatedAt = now
        /\ heap[ret[p].ref].CreatedAt < now

\* The tags a Create or Update request carries.
RequestTags(op, req) ==
    IF op = "create" THEN req.Tags ELSE SliceOf(req.Tags)

\* C19 (as claimed): every stored task has at most 10 tags, each at most 50
\* characters long, and a Create or Update whose request has more than 10
\* tags or a tag longer than 50 characters is rejected with a validation
\* error (an Update of an ID that is not stored, with the not-found error).
C19_TagBounds ==
    /\ \A k \in DOMAIN tasks :
          LET tags == heap[tasks[k]].Tags IN
          /\ Len(tags) <= 10
          /\ \A i \in 1..Len(tags) : Len(tags[i]) <= 50
    /\ \A p \in Callers :
          (ret[p].op \in {"create", "update"}
           /\ LET tags == RequestTags(ret[p].op, arg[p].req) IN
              \/ Len(tags) > 10
              \/ \E i \in 1..Len(tags) : Len(tags[i]) > 50)
          => \/ ret[p].err.kind = "validation"
             \/ ret[p].op = "update" /\ ret[p].err = NotFoundErr

\* C20 (as claimed): a task request that fails because the ID it names is
\* not stored is answered 404, be it a GET, a PUT or a DELETE, and one that
\* fails with a validation or capacity error is answered 400.
C20_StatusCodes ==
    \A p \in Callers :
        ret[p].op \in {"get", "create", "update", "delete"} =>
            /\ ret[p].err = NotFoundErr
                  => HandlerStatus(ret[p].op, ret[p].err) = 404
            /\ ret[p].err.kind \in {"validation", "capacity"}
                  => HandlerStatus(ret[p].op, ret[p].err) = 400

\* A field that is present in the Update request breaks a rule: a title
\* that trims to nothing or to more than 200 bytes, a description that
\* trims to more than 1000, a status or priority outside the enumerations,
\* more than 10 tags, or a tag that trims to nothing or to more than 50
\* bytes.
PresentFieldInvalid(req) ==
    \/ /\ Present(req.Title)
       /\ \/ TrimSpace(Deref(req.Title)) = <<>>
          \/ ByteLen(TrimSpace(Deref(req.Title))) > 200
    \/ Present(req.Description) /\ ByteLen(TrimSpace(Deref(req.Description))) > 1000
    \/ /\ Present(req.Status)
       /\ Deref(req.Status) \notin {"pending", "in-progress", "completed", "cancelled"}
    \/ /\ Present(req.Priority)
       /\ Deref(req.Priority) \notin {"low", "medium", "high", "critical"}
    \/ /\ Present(req.Tags)
       /\ \/ Len(Deref(req.Tags)) > 10
          \/ \E i \in 1..Len(Deref(req.Tags)) :
                \/ TrimSpace(Deref(req.Tags)[i]) = <<>>
                \/ ByteLen(TrimSpace(Deref(req.Tags)[i])) > 50

\* C21: an Update of an ID that is not stored returns the not-found error
\* whatever the request holds, and an Update of a stored ID is rejected, with
\* a validation error, exactly when a field present in the request is
\* invalid.
C21_ExistenceBeforeValidity ==
    [][\A p \in Callers :
          Returns(p, "update") =>
              IF arg[p].id \notin DOMAIN tasks
              THEN ret'[p].err = NotFoundErr
              ELSE /\ ret'[p].err # NoErr => ret'[p].err.kind = "validation"
                   /\ ret'[p].err # NoErr <=> PresentFieldInvalid(arg[p].req)]_vars

\* An Update with an invalid request, of an ID that is not stored, has
\* returned the not-found error.
C21_Witness ==
    \E p \in Callers :
        /\ ret[p].op = "update"
        /\ ret[p].err = NotFoundErr
        /\ PresentFieldInvalid(arg[p].req)

\* The stored tasks a search for q is to return: those that satisfy its
\* filter and its trimmed text.
SearchSatisfying(q) ==
    {tasks[k] : k \in {i \in DOMAIN tasks :
                          /\ Satisfies(heap[tasks[i]], Ptr(q.Filters))
                          /\ TextMatches(heap[tasks[i]], TrimSpace(q.Query),
                                         q.Fields)}}

\* C22 (as claimed): a Search applies the pagination window of its embedded
\* filter as List does: with a limit n > 0 it returns at most n tasks, the
\* positions [offset, offset + limit) of the sorted matching sequence, and
\* with an offset of at least the number of matches it returns the empty
\* sequence.
C22_SearchPaginates ==
    [][\A p \in Callers :
          (Returns(p, "search") /\ Present(arg[p].req))
          => LET q == Deref(arg[p].req)
                 f == q.Filters
                 out == ret'[p].list
             IN /\ Positive(f.Limit) =>
                      /\ ~IntLess(f.Limit, GoInt(Len(out)))
                      /\ ~IsNegative(f.Offset) =>
                            \E s \in sortTasksBy(heap, SearchSatisfying(q),
                                                 q.SortBy, q.SortDesc) :
                               out = Window(s, f.Limit, f.Offset)
                /\ (/\ Positive(f.Offset)
                    /\ ~IntLess(f.Offset, GoInt(Cardinality(SearchSatisfying(q)))))
                      => out = <<>>]_vars

\* C23: the sequence a List returns is ordered by createdAt descending, and
\* the pagination window is cut after sorting: the task at position i of a
\* page that starts at offset has at most offset + i - 1 matching tasks
\* newer than itself and at least offset + i matching tasks as new as or
\* newer than itself.
C23_ListOrdering ==
    [][\A p \in Callers :
          (pc[p] = "list" /\ pc'[p] = "idle" /\ ~ret'[p].panic)
          => LET out == ret'[p].list
                 f == arg[p].req
                 offset == IF Unpaginated(f) THEN 0 ELSE IntVal(Deref(f).Offset)
                 newer(a) == {b \in SatisfyingTasks(f) :
                                 heap[b].CreatedAt > heap[a].CreatedAt}
                 asNew(a) == {b \in SatisfyingTasks(f) :
                                 heap[b].CreatedAt >= heap[a].CreatedAt}
             IN /\ \A i \in 1..(Len(out) - 1) :
                      heap[out[i]].CreatedAt >= heap[out[i + 1]].CreatedAt
                /\ \A i \in 1..Len(out) :
                      /\ Cardinality(newer(out[i])) <= offset + i - 1
                      /\ Cardinality(asNew(out[i])) >= offset + i]_vars

\* A List with a limit and a positive offset has returned a page of two
\* tasks created at different times, and a newer matching task is not on
\* the page.
C23_Witness ==
    \E p \in Callers :
        /\ ret[p].op = "list" /\ pc[p] = "idle" /\ ~ret[p].panic
        /\ Present(arg[p].req)
        /\ Positive(Deref(arg[p].req).Limit)
        /\ Positive(Deref(arg[p].req).Offset)
        /\ Len(ret[p].list) = 2
        /\ heap[ret[p].list[1]].CreatedAt > heap[ret[p].list[2]].CreatedAt
        /\ \E a \in SatisfyingTasks(arg[p].req) :
              /\ a \notin Elems(ret[p].list)
              /\ heap[a].CreatedAt >= heap[ret[p].list[1]].CreatedAt

\* The keys of the stored tasks whose assignee is a.
AssignedKeys(a) == {k \in DOMAIN tasks : heap[tasks[k]].AssignedTo = a}

\* C24: in every Stats result TasksByUser maps each non-empty assignee to
\* the number of stored tasks assigned to it, has no entry for the empty
\* assignee, and its values sum to the number of stored tasks that have an
\* assignee.
C24_StatsByAssignee ==
    [][\A p \in Callers :
          Returns(p, "stats")
          => LET byUser == Deref(ret'[p].stats).TasksByUser IN
             /\ DOMAIN byUser =
                   {heap[tasks[k]].AssignedTo : k \in DOMAIN tasks} \ {<<>>}
             /\ \A a \in DOMAIN byUser : byUser[a] = Cardinality(AssignedKeys(a))
             /\ <<>> \notin DOMAIN byUser
             /\ SumOf(byUser) =
                   Cardinality(DOMAIN tasks) - Cardinality(AssignedKeys(<<>>))]_vars

\* A Stats call has counted two tasks for one assignee while a stored task
\* has none.
C24_Witness ==
    \E p \in Callers :
        /\ ret[p].op = "stats" /\ Present(ret[p].stats)
        /\ \E a \in DOMAIN Deref(ret[p].stats).TasksByUser :
              Deref(ret[p].stats).TasksByUser[a] = 2
        /\ AssignedKeys(<<>>) # {}

\* C25: a read operation (Get, List, Search, Stats) leaves the task map,
\* every field of every stored task, the next-ID counter and the configured
\* maximum unchanged, from the moment it takes the read lock to its return,
\* whether it succeeds, fails or panics.
C25_ReadsHaveNoEffect ==
    [][\A p \in Callers :
          (pc[p] \in ReaderCS \/ pc'[p] \in ReaderCS) =>
              /\ tasks' = tasks
              /\ heap' = heap
              /\ nextID' = nextID
              /\ maxTasks' = maxTasks]_vars

\* A Get of an ID that is not stored has failed on a store that holds tasks,
\* as the last call the bound allows.
C25_Witness ==
    /\ DOMAIN tasks # {}
    /\ pc[Querier] = "idle"
    /\ ret[Querier].op = "get"
    /\ ret[Querier].err = NotFoundErr
    /\ nops = MaxOps

\* C26: with fair scheduling every invoked Create, Get, List, Update,
\* Delete, Search and Stats eventually ends, and on every way out of an
\* operation (normal return, error return, panic) the lock it took is
\* released: the mutex is write-locked exactly while some caller is inside
\* a writing operation and read-locked once per caller inside a reading one.
C26_NoOperationBlocksForever ==
    /\ \A p \in Callers : (pc[p] # "idle") ~> (pc[p] = "idle")
    /\ [](/\ wlocked = (\E p \in Callers : pc[p] \in WriteOps)
          /\ rcount = Cardinality({p \in Callers : pc[p] \in ReadOps}))
    /\ [][\A p \in Callers :
             (pc[p] \in WriteOps \cup ReadOps /\ pc'[p] = "idle") =>
                 IF pc[p] \in WriteOps THEN wlocked /\ ~wlocked'
                 ELSE rcount' = rcount - 1]_vars

\* A Delete has returned its not-found error and the mutex is free, while
\* the other caller still waits for the mutex it needs for a write.
C26_Witness ==
    \E p, q \in Callers :
        /\ pc[p] = "idle"
        /\ ret[p].op = "delete"
        /\ ret[p].err = NotFoundErr
        /\ pc[q] \in Waiting
        /\ WaitFor[pc[q]] \in WriteOps
        /\ ~wlocked
        /\ rcount = 0

\* C27: after Stop() has been called the cleanup goroutine started by
\* NewRateLimitMiddleware completes no further cleanup pass, and it
\* eventually leaves its loop.
C27_StopStopsCleanup ==
    /\ [][tickerStopped =>
             ~(cleanupPc = "pass" /\ cleanupPc' = "receive")]_vars
    /\ tickerStopped ~> (cleanupPc = "exited")

\* C28: with a positive limit L, no client has more than L requests passed
\* on to the next handler with recorded times inside one window of a
\* minute; and a request checked when L requests of its client are recorded
\* in the last minute is answered 429 and not passed on.
C28_RateLimitHolds ==
    /\ [](rateLimit > 0 =>
             \A ip \in ClientIPs : \A t \in 0..MaxClock :
                 Cardinality({i \in 1..Len(passed) :
                                 /\ passed[i].ip = ip
                                 /\ passed[i].at <= t
                                 /\ InLastMinute(passed[i].at, t)})
                     <= rateLimit)
    /\ [][\A p \in Callers :
             (/\ pc[p] = "handler"
              /\ pc'[p] # "handler"
              /\ rateLimit > 0
              /\ arg[p].req \in DOMAIN clients
              /\ CountRecent(clients[arg[p].req].requests, now')
                     >= rateLimit)
             => (ret'[p].err = RateLimitErr /\ passed' = passed
                    /\ pc'[p] = "idle")]_vars

\* C29: a List is determined by the store and the filter, also when stored
\* tasks have equal createdAt: the sequence a List returns is the one every
\* List with that filter returns on that store, and the page a List returns
\* for a limit and an offset shares no task with the page any List returns
\* on that store for the same limit at the next offset.
C29_ListDeterministic ==
    [][\A p \in Callers :
          (pc[p] = "list" /\ pc'[p] = "idle" /\ ~ret'[p].panic)
          => LET f == arg[p].req
                 out == ret'[p].list
             IN /\ \A r \in GetAllTasks(Store, f) : r.tasks = out
                /\ (/\ Present(f)
                    /\ Positive(Deref(f).Limit)
                    /\ ~IsNegative(Deref(f).Offset)
                    /\ ~IsNegative(IntAdd(Deref(f).Offset, Deref(f).Limit)))
                   => \A r \in GetAllTasks(Store,
                                   Ptr([Deref(f) EXCEPT
                                          !.Offset = IntAdd(@, Deref(f).Limit)])) :
                         Elems(r.tasks) \cap Elems(out) = {}]_vars

\* C30: each stored task's ID field equals the key it is stored under, is at
\* least 1 and less than the next-ID counter; the counter advances by
\* exactly 1 in a successful Create and is left alone by every other step,
\* the failed Create included; and no step changes the ID of a task object.
C30_IdentityInvariant ==
    /\ [](\A k \in DOMAIN tasks :
             /\ heap[tasks[k]].ID = k
             /\ k >= 1
             /\ k < nextID)
    /\ [][LET createSucceeds ==
                 \E p \in Callers :
                    /\ pc[p] = "create"
                    /\ pc'[p] = "idle"
                    /\ ret'[p].err = NoErr
           IN /\ nextID' = (IF createSucceeds THEN nextID + 1 ELSE nextID)
              /\ \A a \in DOMAIN heap :
                    a \in DOMAIN heap' /\ heap'[a].ID = heap[a].ID]_vars

\* A Create has succeeded after the sample tasks and a later Create has
\* failed: the counter is one past the last ID, which is stored.
C30_Witness ==
    \E p, q \in Callers :
        /\ pc[p] = "idle" /\ pc[q] = "idle"
        /\ ret[p].op = "create" /\ ret[p].err = NoErr
        /\ ret[q].op = "create" /\ ret[q].err # NoErr
        /\ heap[ret[p].ref].ID = nextID - 1
        /\ nextID - 1 \in DOMAIN tasks
        /\ nextID - 1 > Len(SampleTasks)

====
